---- MODULE Spec2Model ----
(***************************************************************************)
(* Model of the MiniatureProjectTracker backend: the relational store      *)
(* (projects, miniatures, photos, painting_recipes, miniature_recipes),    *)
(* the repositories that issue one SQL statement per await, the HTTP       *)
(* handlers that call them, and the photo storage.                         *)
(*                                                                         *)
(* Every request is handled by its own task.  A task takes one atomic step *)
(* per awaited database or storage call; everything a handler does between *)
(* two awaits belongs to the step of the earlier await.                    *)
(*                                                                         *)
(* Encodings:                                                              *)
(*   String          a sequence of characters, each a one-token string     *)
(*   Option<T>       <<>> for None, <<v>> for Some(v)                      *)
(*   DateTime<Utc>   a reading of the wall clock `clock`                   *)
(*   a table         a function from the ids of its rows to the rows       *)
(***************************************************************************)
EXTENDS Integers, Sequences, FiniteSets, TLC

VARIABLES db, storage, clock, uuid_seq, task

vars == <<db, storage, clock, uuid_seq, task>>

(***************************************************************************)
(* Bounds of the model.                                                    *)
(***************************************************************************)
\* The wall clock takes the readings 0..MaxClock.
MaxClock == 2
\* Names tried against the validation rule have at most MaxLen characters.
MaxLen == 2

(***************************************************************************)
(* Option<T>                                                               *)
(***************************************************************************)
None == <<>>

Some(v) == <<v>>

is_some(o) == o # <<>>

\* Option::unwrap_or
unwrap_or(o, default) == IF o = <<>> THEN default ELSE o[1]

\* Option::or
option_or(o, optb) == IF o # <<>> THEN o ELSE optb

(***************************************************************************)
(* Characters.  One representative per class that the validation rule and  *)
(* str::trim distinguish:                                                  *)
(*   "a"      ASCII letter            alphanumeric                         *)
(*   "E_ACUTE" U+00E9                 alphanumeric, not ASCII              *)
(*   "!"      ASCII punctuation                                            *)
(*   " "      ASCII space             White_Space                          *)
(*   "NBSP"   U+00A0                  White_Space, not ASCII               *)
(*   "NUL"    U+0000                  control, not White_Space             *)
(*   "EMDASH" U+2014                  punctuation, not ASCII               *)
(***************************************************************************)
Chars == {"a", "E_ACUTE", "!", " ", "NBSP", "NUL", "EMDASH"}

\* char::is_alphanumeric
is_alphanumeric(c) == c \in {"a", "E_ACUTE"}

\* char::is_ascii_punctuation
is_ascii_punctuation(c) == c \in {"!"}

\* char::is_whitespace
is_whitespace(c) == c \in {" ", "NBSP"}

RECURSIVE trim_start(_)
trim_start(s) ==
    IF s = <<>> THEN <<>>
    ELSE IF is_whitespace(Head(s)) THEN trim_start(Tail(s))
    ELSE s

RECURSIVE trim_end(_)
trim_end(s) ==
    IF s = <<>> THEN <<>>
    ELSE IF is_whitespace(s[Len(s)]) THEN trim_end(SubSeq(s, 1, Len(s) - 1))
    ELSE s

\* str::trim
trim(s) == trim_end(trim_start(s))

\* s.chars().any(|c| c.is_alphanumeric() || c.is_ascii_punctuation())
RECURSIVE any_meaningful(_)
any_meaningful(s) ==
    IF s = <<>> THEN FALSE
    ELSE IF is_alphanumeric(Head(s)) \/ is_ascii_punctuation(Head(s)) THEN TRUE
    ELSE any_meaningful(Tail(s))

\* The handlers' condition without its `.chars().any(...)` half.
name_rejected_trim_only(s) == trim(s) = <<>>

\* The condition under which the project and miniature handlers reject a name.
name_rejected(s) == trim(s) = <<>> \/ ~any_meaningful(s)

\* The recipe handlers' condition made the one of the project handlers.
recipe_name_rejected_as_projects(s) == trim(s) = <<>> \/ ~any_meaningful(s)

\* The condition under which the recipe handlers reject a name.
recipe_name_rejected(s) == trim(s) = <<>>

(***************************************************************************)
(* Tables                                                                  *)
(***************************************************************************)
Put(table, id, row) ==
    [x \in DOMAIN table \cup {id} |-> IF x = id THEN row ELSE table[x]]

Remove(table, ids) == [x \in DOMAIN table \ ids |-> table[x]]

\* ORDER BY field: the rows by ascending field; the order of rows equal on
\* the field is the engine's choice, here the one of their ids.
RECURSIVE order_by(_, _)
order_by(rows, field) ==
    IF rows = {} THEN <<>>
    ELSE LET first == CHOOSE r \in rows : \A q \in rows :
                          \/ r[field] < q[field]
                          \/ r[field] = q[field] /\ r.id <= q.id
         IN  <<first>> \o order_by(rows \ {first}, field)

EmptyTable == [x \in {} |-> x]

EmptyDb ==
    [projects          |-> EmptyTable,
     miniatures        |-> EmptyTable,
     painting_recipes  |-> EmptyTable,
     photos            |-> EmptyTable,
     miniature_recipes |-> EmptyTable,
     seq               |-> [projects |-> 0, miniatures |-> 0,
                            painting_recipes |-> 0, photos |-> 0]]

(***************************************************************************)
(* The relational schema.  The migrations are not part of the sources at   *)
(* hand; what they declare is taken from the specification: server-        *)
(* generated ids, foreign keys miniatures.project_id -> projects,          *)
(* photos.miniature_id -> miniatures, miniature_recipes -> miniatures and  *)
(* painting_recipes, each ON DELETE CASCADE, and the unique pair           *)
(* (miniature_id, recipe_id) of miniature_recipes.                         *)
(*                                                                         *)
(* miniature_recipes is kept as a function from the pairs present to the   *)
(* number of rows holding that pair, so that a duplicate row shows.        *)
(***************************************************************************)
\* The id the store gives the next row of a table.
generated_id(d, table) == d.seq[table] + 1

\* ON DELETE CASCADE: what one DELETE statement removes besides its own rows.
on_delete_cascade(d) ==
    LET ms == {m \in DOMAIN d.miniatures :
                   d.miniatures[m].project_id \in DOMAIN d.projects}
        ps == {p \in DOMAIN d.photos : d.photos[p].miniature_id \in ms}
        ls == {l \in DOMAIN d.miniature_recipes :
                   l[1] \in ms /\ l[2] \in DOMAIN d.painting_recipes}
    IN  [d EXCEPT !.miniatures = Remove(@, DOMAIN @ \ ms),
                  !.photos = Remove(@, DOMAIN @ \ ps),
                  !.miniature_recipes = Remove(@, DOMAIN @ \ ls)]

\* FOREIGN KEY (project_id) REFERENCES projects(id), checked by an INSERT.
fk_project_ok(d, project_id) == project_id \in DOMAIN d.projects

\* FOREIGN KEY (miniature_id) REFERENCES miniatures(id), checked by an INSERT.
fk_miniature_ok(d, miniature_id) == miniature_id \in DOMAIN d.miniatures

\* FOREIGN KEY (recipe_id) REFERENCES painting_recipes(id), checked by an INSERT.
fk_recipe_ok(d, recipe_id) == recipe_id \in DOMAIN d.painting_recipes

\* The unique pair of miniature_recipes: an INSERT of a pair present conflicts.
unique_pair_conflict(d, miniature_id, recipe_id) ==
    <<miniature_id, recipe_id>> \in DOMAIN d.miniature_recipes

(***************************************************************************)
(* serde_json over Vec<String>: the text stored in the columns steps,      *)
(* paints_used and techniques of painting_recipes.                         *)
(***************************************************************************)
RECURSIVE json_escape(_)
json_escape(s) ==
    IF s = <<>> THEN <<>>
    ELSE IF Head(s) \in {"\"", "\\"} THEN <<"\\", Head(s)>> \o json_escape(Tail(s))
    ELSE <<Head(s)>> \o json_escape(Tail(s))

RECURSIVE json_elems(_)
json_elems(v) ==
    IF v = <<>> THEN <<>>
    ELSE <<"\"">> \o json_escape(Head(v)) \o <<"\"">>
         \o (IF Tail(v) = <<>> THEN <<>> ELSE <<",">> \o json_elems(Tail(v)))

\* serde_json::to_string(&Vec<String>).unwrap_or_default()
to_string(v) == <<"[">> \o json_elems(v) \o <<"]">>

JsonFail == [ok |-> FALSE, value |-> <<>>, next |-> 0]

\* The body of a JSON string from position i on, up to its closing quote.
RECURSIVE json_parse_string(_, _, _)
json_parse_string(txt, i, acc) ==
    IF i > Len(txt) THEN JsonFail
    ELSE IF txt[i] = "\"" THEN [ok |-> TRUE, value |-> acc, next |-> i + 1]
    ELSE IF txt[i] = "\\"
         THEN IF i + 1 <= Len(txt) /\ txt[i + 1] \in {"\"", "\\"}
              THEN json_parse_string(txt, i + 2, Append(acc, txt[i + 1]))
              ELSE JsonFail
    ELSE json_parse_string(txt, i + 1, Append(acc, txt[i]))

\* The elements of a non-empty JSON array from position i on, up to "]".
RECURSIVE json_parse_elems(_, _, _)
json_parse_elems(txt, i, acc) ==
    IF i > Len(txt) \/ txt[i] # "\"" THEN JsonFail
    ELSE LET str == json_parse_string(txt, i + 1, <<>>)
         IN  IF ~str.ok \/ str.next > Len(txt) THEN JsonFail
             ELSE IF txt[str.next] = ","
                  THEN json_parse_elems(txt, str.next + 1, Append(acc, str.value))
             ELSE IF txt[str.next] = "]" /\ str.next = Len(txt)
                  THEN [ok |-> TRUE, value |-> Append(acc, str.value), next |-> str.next + 1]
             ELSE JsonFail

\* serde_json::from_str::<Vec<String>>(text).unwrap_or_default()
from_str(txt) ==
    IF Len(txt) < 2 \/ txt[1] # "[" THEN <<>>
    ELSE IF txt = <<"[", "]">> THEN <<>>
    ELSE LET r == json_parse_elems(txt, 2, <<>>)
         IN  IF r.ok THEN r.value ELSE <<>>

(***************************************************************************)
(* ProjectRepository                                                       *)
(***************************************************************************)
\* INSERT INTO projects ... RETURNING ...
ProjectRepository_create(d, request, now) ==
    LET id  == generated_id(d, "projects")
        row == [id          |-> id,
                name        |-> request.name,
                game_system |-> request.game_system,
                army        |-> request.army,
                description |-> request.description,
                created_at  |-> now,
                updated_at  |-> now]
    IN  [db  |-> [d EXCEPT !.projects = Put(@, id, row), !.seq.projects = id],
         ret |-> row]

\* SELECT ... FROM projects WHERE id = ?1
ProjectRepository_find_by_id(d, id) ==
    IF id \in DOMAIN d.projects THEN Some(d.projects[id]) ELSE None

\* The merge of ProjectRepository::update without `.or(current.description)`.
ProjectRepository_update_merge_drops_description(request, current) ==
    [name        |-> unwrap_or(request.name, current.name),
     game_system |-> unwrap_or(request.game_system, current.game_system),
     army        |-> unwrap_or(request.army, current.army),
     description |-> request.description]

\* The merge of ProjectRepository::update: the columns to write.
ProjectRepository_update_merge(request, current) ==
    [name        |-> unwrap_or(request.name, current.name),
     game_system |-> unwrap_or(request.game_system, current.game_system),
     army        |-> unwrap_or(request.army, current.army),
     description |-> option_or(request.description, current.description)]

\* The UPDATE of ProjectRepository::update without its WHERE clause.
ProjectRepository_update_write_without_where(d, id, merged, now) ==
    IF id \notin DOMAIN d.projects THEN [db |-> d, ret |-> None]
    ELSE LET written(r) == [r EXCEPT !.name = merged.name,
                                     !.game_system = merged.game_system,
                                     !.army = merged.army,
                                     !.description = merged.description,
                                     !.updated_at = now]
         IN  [db  |-> [d EXCEPT !.projects = [p \in DOMAIN d.projects |->
                                                 written(d.projects[p])]],
              ret |-> Some(written(d.projects[id]))]

\* UPDATE projects SET ... WHERE id = ?6 RETURNING ...
ProjectRepository_update_write(d, id, merged, now) ==
    IF id \notin DOMAIN d.projects THEN [db |-> d, ret |-> None]
    ELSE LET row == [d.projects[id] EXCEPT !.name = merged.name,
                                           !.game_system = merged.game_system,
                                           !.army = merged.army,
                                           !.description = merged.description,
                                           !.updated_at = now]
         IN  [db |-> [d EXCEPT !.projects[id] = row], ret |-> Some(row)]

\* ProjectRepository::delete whose statement removes nothing.
ProjectRepository_delete_keeps_row(d, id) ==
    [db |-> d, ret |-> id \in DOMAIN d.projects]

\* DELETE FROM projects WHERE id = ?1; Ok(result.rows_affected() > 0)
ProjectRepository_delete(d, id) ==
    LET rows_affected == Cardinality({id} \cap DOMAIN d.projects)
    IN  [db  |-> on_delete_cascade([d EXCEPT !.projects = Remove(@, {id})]),
         ret |-> rows_affected > 0]

(***************************************************************************)
(* MiniatureRepository                                                     *)
(***************************************************************************)
\* MiniatureRepository::create over a table that keeps names unique in a project.
MiniatureRepository_create_unique_name(d, project_id, request, now) ==
    IF \/ ~fk_project_ok(d, project_id)
       \/ \E m \in DOMAIN d.miniatures :
              /\ d.miniatures[m].project_id = project_id
              /\ d.miniatures[m].name = request.name
    THEN [db |-> d, ok |-> FALSE, ret |-> None]
    ELSE LET id  == generated_id(d, "miniatures")
             row == [id              |-> id,
                     project_id      |-> project_id,
                     name            |-> request.name,
                     miniature_type  |-> request.miniature_type,
                     progress_status |-> "unpainted",
                     notes           |-> request.notes,
                     created_at      |-> now,
                     updated_at      |-> now]
         IN  [db  |-> [d EXCEPT !.miniatures = Put(@, id, row), !.seq.miniatures = id],
              ok  |-> TRUE,
              ret |-> Some(row)]

\* INSERT INTO miniatures ... RETURNING ...; the foreign key may refuse it.
MiniatureRepository_create(d, project_id, request, now) ==
    IF ~fk_project_ok(d, project_id) THEN [db |-> d, ok |-> FALSE, ret |-> None]
    ELSE LET id  == generated_id(d, "miniatures")
             row == [id              |-> id,
                     project_id      |-> project_id,
                     name            |-> request.name,
                     miniature_type  |-> request.miniature_type,
                     progress_status |-> "unpainted",
                     notes           |-> request.notes,
                     created_at      |-> now,
                     updated_at      |-> now]
         IN  [db  |-> [d EXCEPT !.miniatures = Put(@, id, row), !.seq.miniatures = id],
              ok  |-> TRUE,
              ret |-> Some(row)]

\* SELECT ... FROM miniatures WHERE id = ?1
MiniatureRepository_find_by_id(d, id) ==
    IF id \in DOMAIN d.miniatures THEN Some(d.miniatures[id]) ELSE None

\* SELECT ... FROM miniatures WHERE project_id = ?1 ORDER BY created_at
MiniatureRepository_find_by_project_id(d, project_id) ==
    order_by({d.miniatures[m] : m \in {i \in DOMAIN d.miniatures :
                                          d.miniatures[i].project_id = project_id}},
             "created_at")

\* The merge of MiniatureRepository::update where a null notes clears the notes.
MiniatureRepository_update_merge_null_clears(request, current) ==
    [name            |-> unwrap_or(request.name, current.name),
     progress_status |-> unwrap_or(request.progress_status, current.progress_status),
     notes           |-> request.notes]

\* The merge of MiniatureRepository::update letting the status only advance.
MiniatureRepository_update_merge_forward_only(request, current) ==
    LET order   == <<"unpainted", "primed", "basecoated", "detailed", "completed">>
        rank(x) == CHOOSE i \in 1..5 : order[i] = x
        wanted  == unwrap_or(request.progress_status, current.progress_status)
    IN  [name            |-> unwrap_or(request.name, current.name),
         progress_status |-> IF rank(wanted) > rank(current.progress_status)
                             THEN wanted ELSE current.progress_status,
         notes           |-> option_or(request.notes, current.notes)]

\* The merge of MiniatureRepository::update: the columns to write.
MiniatureRepository_update_merge(request, current) ==
    [name            |-> unwrap_or(request.name, current.name),
     progress_status |-> unwrap_or(request.progress_status, current.progress_status),
     notes           |-> option_or(request.notes, current.notes)]

\* The UPDATE of MiniatureRepository::update as an insert-or-update.
MiniatureRepository_update_write_upsert(d, id, merged, now) ==
    LET row == IF id \in DOMAIN d.miniatures
               THEN [d.miniatures[id] EXCEPT !.name = merged.name,
                                             !.progress_status = merged.progress_status,
                                             !.notes = merged.notes,
                                             !.updated_at = now]
               ELSE [id              |-> id,
                     project_id      |-> 0,
                     name            |-> merged.name,
                     miniature_type  |-> "troop",
                     progress_status |-> merged.progress_status,
                     notes           |-> merged.notes,
                     created_at      |-> now,
                     updated_at      |-> now]
    IN  [db |-> [d EXCEPT !.miniatures = Put(@, id, row)], ret |-> Some(row)]

\* The UPDATE of MiniatureRepository::update without `name = ?1` in its SET.
MiniatureRepository_update_write_keeps_name(d, id, merged, now) ==
    IF id \notin DOMAIN d.miniatures THEN [db |-> d, ret |-> None]
    ELSE LET row == [d.miniatures[id] EXCEPT !.progress_status = merged.progress_status,
                                             !.notes = merged.notes,
                                             !.updated_at = now]
         IN  [db |-> [d EXCEPT !.miniatures[id] = row], ret |-> Some(row)]

\* UPDATE miniatures SET ... WHERE id = ?5 RETURNING ...
MiniatureRepository_update_write(d, id, merged, now) ==
    IF id \notin DOMAIN d.miniatures THEN [db |-> d, ret |-> None]
    ELSE LET row == [d.miniatures[id] EXCEPT !.name = merged.name,
                                             !.progress_status = merged.progress_status,
                                             !.notes = merged.notes,
                                             !.updated_at = now]
         IN  [db |-> [d EXCEPT !.miniatures[id] = row], ret |-> Some(row)]

\* MiniatureRepository::delete that removes the linked recipes with the links.
MiniatureRepository_delete_with_recipes(d, id) ==
    LET linked == {r \in DOMAIN d.painting_recipes :
                       <<id, r>> \in DOMAIN d.miniature_recipes}
    IN  [db  |-> on_delete_cascade([d EXCEPT !.miniatures = Remove(@, {id}),
                                             !.painting_recipes = Remove(@, linked)]),
         ret |-> id \in DOMAIN d.miniatures]

\* DELETE FROM miniatures WHERE id = ?1; Ok(result.rows_affected() > 0)
MiniatureRepository_delete(d, id) ==
    LET rows_affected == Cardinality({id} \cap DOMAIN d.miniatures)
    IN  [db  |-> on_delete_cascade([d EXCEPT !.miniatures = Remove(@, {id})]),
         ret |-> rows_affected > 0]

(***************************************************************************)
(* RecipeRepository                                                        *)
(***************************************************************************)
\* A row of painting_recipes read into a PaintingRecipe.
PaintingRecipe_from_row(r) ==
    [id             |-> r.id,
     name           |-> r.name,
     miniature_type |-> r.miniature_type,
     steps          |-> from_str(r.steps),
     paints_used    |-> from_str(r.paints_used),
     techniques     |-> from_str(r.techniques),
     notes          |-> r.notes,
     created_at     |-> r.created_at,
     updated_at     |-> r.updated_at]

\* INSERT INTO painting_recipes ... RETURNING ...
RecipeRepository_create(d, request, now) ==
    LET id  == generated_id(d, "painting_recipes")
        row == [id             |-> id,
                name           |-> request.name,
                miniature_type |-> request.miniature_type,
                steps          |-> to_string(request.steps),
                paints_used    |-> to_string(request.paints_used),
                techniques     |-> to_string(request.techniques),
                notes          |-> request.notes,
                created_at     |-> now,
                updated_at     |-> now]
    IN  [db  |-> [d EXCEPT !.painting_recipes = Put(@, id, row),
                           !.seq.painting_recipes = id],
         ret |-> PaintingRecipe_from_row(row)]

\* SELECT ... FROM painting_recipes WHERE id = ?1
RecipeRepository_find_by_id(d, id) ==
    IF id \in DOMAIN d.painting_recipes
    THEN Some(PaintingRecipe_from_row(d.painting_recipes[id]))
    ELSE None

\* The merge of RecipeRepository::update: the columns to write.
RecipeRepository_update_merge(request, current) ==
    [name        |-> unwrap_or(request.name, current.name),
     steps       |-> to_string(unwrap_or(request.steps, current.steps)),
     paints_used |-> to_string(unwrap_or(request.paints_used, current.paints_used)),
     techniques  |-> to_string(unwrap_or(request.techniques, current.techniques)),
     notes       |-> option_or(request.notes, current.notes)]

\* UPDATE painting_recipes SET ... WHERE id = ?7 RETURNING ...
RecipeRepository_update_write(d, id, merged, now) ==
    IF id \notin DOMAIN d.painting_recipes THEN [db |-> d, ret |-> None]
    ELSE LET row == [d.painting_recipes[id] EXCEPT !.name = merged.name,
                                                   !.steps = merged.steps,
                                                   !.paints_used = merged.paints_used,
                                                   !.techniques = merged.techniques,
                                                   !.notes = merged.notes,
                                                   !.updated_at = now]
         IN  [db  |-> [d EXCEPT !.painting_recipes[id] = row],
              ret |-> Some(PaintingRecipe_from_row(row))]

\* RecipeRepository::delete answering `rows_affected() >= 0`.
RecipeRepository_delete_always_true(d, id) ==
    [db  |-> on_delete_cascade([d EXCEPT !.painting_recipes = Remove(@, {id})]),
     ret |-> TRUE]

\* DELETE FROM painting_recipes WHERE id = ?1; Ok(result.rows_affected() > 0)
RecipeRepository_delete(d, id) ==
    LET rows_affected == Cardinality({id} \cap DOMAIN d.painting_recipes)
    IN  [db  |-> on_delete_cascade([d EXCEPT !.painting_recipes = Remove(@, {id})]),
         ret |-> rows_affected > 0]

(***************************************************************************)
(* MiniatureRecipeRepository                                               *)
(***************************************************************************)
\* MiniatureRecipeRepository::link as a plain INSERT: the duplicate is an error.
MiniatureRecipeRepository_link_plain_insert(d, miniature_id, recipe_id) ==
    IF unique_pair_conflict(d, miniature_id, recipe_id) THEN [db |-> d, ok |-> FALSE]
    ELSE IF ~fk_miniature_ok(d, miniature_id) \/ ~fk_recipe_ok(d, recipe_id)
         THEN [db |-> d, ok |-> FALSE]
    ELSE [db |-> [d EXCEPT !.miniature_recipes =
                      Put(@, <<miniature_id, recipe_id>>, 1)],
          ok |-> TRUE]

\* INSERT OR IGNORE INTO miniature_recipes ... / ON CONFLICT DO NOTHING
MiniatureRecipeRepository_link(d, miniature_id, recipe_id) ==
    IF unique_pair_conflict(d, miniature_id, recipe_id) THEN [db |-> d, ok |-> TRUE]
    ELSE IF ~fk_miniature_ok(d, miniature_id) \/ ~fk_recipe_ok(d, recipe_id)
         THEN [db |-> d, ok |-> FALSE]
    ELSE [db |-> [d EXCEPT !.miniature_recipes =
                      Put(@, <<miniature_id, recipe_id>>, 1)],
          ok |-> TRUE]

\* DELETE FROM miniature_recipes WHERE miniature_id = ?1 AND recipe_id = ?2
MiniatureRecipeRepository_unlink(d, miniature_id, recipe_id) ==
    LET pair == <<miniature_id, recipe_id>>
        rows_affected == IF pair \in DOMAIN d.miniature_recipes
                         THEN d.miniature_recipes[pair] ELSE 0
    IN  [db  |-> [d EXCEPT !.miniature_recipes = Remove(@, {pair})],
         ret |-> rows_affected > 0]

(***************************************************************************)
(* PhotoRepository                                                         *)
(***************************************************************************)
\* INSERT INTO photos ... RETURNING ...; the foreign key may refuse it.
PhotoRepository_create(d, miniature_id, filename, file_path, file_size, mime_type, now) ==
    IF ~fk_miniature_ok(d, miniature_id) THEN [db |-> d, ok |-> FALSE, ret |-> None]
    ELSE LET id  == generated_id(d, "photos")
             row == [id           |-> id,
                     miniature_id |-> miniature_id,
                     filename     |-> filename,
                     file_path    |-> file_path,
                     file_size    |-> file_size,
                     mime_type    |-> mime_type,
                     uploaded_at  |-> now]
         IN  [db  |-> [d EXCEPT !.photos = Put(@, id, row), !.seq.photos = id],
              ok  |-> TRUE,
              ret |-> Some(row)]

\* SELECT ... FROM photos WHERE id = ?1
PhotoRepository_find_by_id(d, id) ==
    IF id \in DOMAIN d.photos THEN Some(d.photos[id]) ELSE None

\* PhotoRepository::find_by_miniature_id with ORDER BY id.
PhotoRepository_find_by_miniature_id_by_id(d, miniature_id) ==
    order_by({d.photos[p] : p \in {i \in DOMAIN d.photos :
                                      d.photos[i].miniature_id = miniature_id}},
             "id")

\* SELECT ... FROM photos WHERE miniature_id = ?1 ORDER BY uploaded_at
PhotoRepository_find_by_miniature_id(d, miniature_id) ==
    order_by({d.photos[p] : p \in {i \in DOMAIN d.photos :
                                      d.photos[i].miniature_id = miniature_id}},
             "uploaded_at")

\* The DELETE of PhotoRepository::delete returning `photo` whatever rows_affected is.
PhotoRepository_delete_exec_ignores_rows_affected(d, id, photo) ==
    [db  |-> [d EXCEPT !.photos = Remove(@, {id})],
     ret |-> photo]

\* DELETE FROM photos WHERE id = ?1, after the find_by_id of PhotoRepository::delete
\* returned `photo`: the record when the statement removed a row, else None.
PhotoRepository_delete_exec(d, id, photo) ==
    LET rows_affected == Cardinality({id} \cap DOMAIN d.photos)
    IN  [db  |-> [d EXCEPT !.photos = Remove(@, {id})],
         ret |-> IF rows_affected > 0 THEN photo ELSE None]

(***************************************************************************)
(* Photo storage: the local backend, a directory tree under base_path.     *)
(* `storage` maps every key that has a file to the bytes of the file.      *)
(* A key is a string: a sequence of characters.                            *)
(***************************************************************************)
is_prefix(pat, s) == Len(pat) <= Len(s) /\ SubSeq(s, 1, Len(pat)) = pat

\* str::replace(from, to) for a non-empty pattern: non-overlapping, left to right.
RECURSIVE str_replace(_, _, _)
str_replace(s, from, to) ==
    IF s = <<>> THEN <<>>
    ELSE IF is_prefix(from, s)
         THEN to \o str_replace(SubSeq(s, Len(from) + 1, Len(s)), from, to)
    ELSE <<Head(s)>> \o str_replace(Tail(s), from, to)

\* str::trim_start_matches('/')
RECURSIVE trim_start_matches_slash(_)
trim_start_matches_slash(s) ==
    IF s # <<>> /\ Head(s) = "/" THEN trim_start_matches_slash(Tail(s)) ELSE s

\* LocalStorage::sanitize_path with trim_start_matches('/') applied first.
sanitize_path_trim_first(file_path) ==
    LET sanitized == str_replace(str_replace(trim_start_matches_slash(file_path),
                                             <<".", ".">>, <<>>),
                                 <<"\\">>, <<"/">>)
    IN  IF sanitized = <<>> THEN None ELSE Some(sanitized)

\* LocalStorage::sanitize_path: Ok(sanitized), or Err(InvalidPath) as None.
sanitize_path(file_path) ==
    LET sanitized == trim_start_matches_slash(
                         str_replace(str_replace(file_path, <<".", ".">>, <<>>),
                                     <<"\\">>, <<"/">>))
    IN  IF sanitized = <<>> THEN None ELSE Some(sanitized)

\* The index of the last occurrence of c in s, 0 when there is none.
last_index_of(s, c) ==
    IF \E i \in 1..Len(s) : s[i] = c
    THEN CHOOSE i \in 1..Len(s) : s[i] = c /\ \A j \in (i + 1)..Len(s) : s[j] # c
    ELSE 0

\* Path::new(filename).extension(): of the last path component, the part after
\* its last '.', unless that '.' is its first character or there is none.
path_extension(filename) ==
    LET slash == last_index_of(filename, "/")
        name  == SubSeq(filename, slash + 1, Len(filename))
        dot   == last_index_of(name, ".")
    IN  IF name = <<>> \/ name = <<".", ".">> \/ dot <= 1 THEN None
        ELSE Some(SubSeq(name, dot + 1, Len(name)))

\* The decimal text of an id.
id_to_string(id) == <<"0", "1", "2", "3", "4", "5", "6", "7", "8", "9">>[id + 1]

\* The text of the n-th value Uuid::new_v4() hands out.
uuid_to_string(n) == <<"u1", "u2", "u3", "u4", "u5", "u6", "u7", "u8", "u9">>[n]

\* StorageService::store_photo without the Uuid in the key.
store_photo_key_without_uuid(filename, miniature_id, uuid) ==
    LET file_extension == unwrap_or(path_extension(filename), <<"jpg">>)
    IN  <<"miniatures", "/", id_to_string(miniature_id), "/">>
        \o str_replace(filename, <<".">> \o file_extension, <<>>)
        \o <<".">> \o file_extension

\* StorageService::store_photo: the key it asks the backend to store under.
store_photo_key(filename, miniature_id, uuid) ==
    LET file_extension == unwrap_or(path_extension(filename), <<"jpg">>)
    IN  <<"miniatures", "/", id_to_string(miniature_id), "/", uuid_to_string(uuid), "_">>
        \o str_replace(filename, <<".">> \o file_extension, <<>>)
        \o <<".">> \o file_extension

\* LocalStorage::store returning the path it was asked for.
LocalStorage_store_returns_requested(st, file_data, file_path, io_ok) ==
    LET sanitized_path == sanitize_path(file_path)
    IN  IF sanitized_path = None THEN [storage |-> st, ret |-> None, err |-> "InvalidPath"]
        ELSE IF ~io_ok THEN [storage |-> st, ret |-> None, err |-> "IoError"]
        ELSE [storage |-> Put(st, sanitized_path[1], file_data),
              ret |-> Some(file_path), err |-> ""]

\* LocalStorage::store that drops the error of fs::write.
LocalStorage_store_unchecked(st, file_data, file_path, io_ok) ==
    LET sanitized_path == sanitize_path(file_path)
    IN  IF sanitized_path = None THEN [storage |-> st, ret |-> None, err |-> "InvalidPath"]
        ELSE IF ~io_ok THEN [storage |-> st, ret |-> sanitized_path, err |-> ""]
        ELSE [storage |-> Put(st, sanitized_path[1], file_data),
              ret     |-> sanitized_path,
              err     |-> ""]

\* LocalStorage::store; io_ok is whether the file system carries the write out.
LocalStorage_store(st, file_data, file_path, io_ok) ==
    LET sanitized_path == sanitize_path(file_path)
    IN  IF sanitized_path = None THEN [storage |-> st, ret |-> None, err |-> "InvalidPath"]
        ELSE IF ~io_ok THEN [storage |-> st, ret |-> None, err |-> "IoError"]
        ELSE [storage |-> Put(st, sanitized_path[1], file_data),
              ret     |-> sanitized_path,
              err     |-> ""]

\* LocalStorage::delete; io_ok is whether the file system carries the removal out.
LocalStorage_delete(st, file_path, io_ok) ==
    LET sanitized_path == sanitize_path(file_path)
    IN  IF sanitized_path = None THEN [storage |-> st, err |-> "InvalidPath"]
        ELSE IF sanitized_path[1] \notin DOMAIN st
             THEN [storage |-> st, err |-> "FileNotFound"]
        ELSE IF ~io_ok THEN [storage |-> st, err |-> "IoError"]
        ELSE [storage |-> Remove(st, {sanitized_path[1]}), err |-> ""]

\* LocalStorage::retrieve; io_ok is whether fs::read succeeds.
LocalStorage_retrieve(st, file_path, io_ok) ==
    LET sanitized_path == sanitize_path(file_path)
    IN  IF sanitized_path = None THEN [ret |-> None, err |-> "InvalidPath"]
        ELSE IF sanitized_path[1] \notin DOMAIN st
             THEN [ret |-> None, err |-> "FileNotFound"]
        ELSE IF ~io_ok THEN [ret |-> None, err |-> "IoError"]
        ELSE [ret |-> Some(st[sanitized_path[1]]), err |-> ""]

\* LocalStorage::exists
LocalStorage_exists(st, file_path) ==
    LET sanitized_path == sanitize_path(file_path)
    IN  IF sanitized_path = None THEN [ret |-> None, err |-> "InvalidPath"]
        ELSE [ret |-> Some(sanitized_path[1] \in DOMAIN st), err |-> ""]

\* S3Storage::sanitize_key: Ok(sanitized), or Err(InvalidPath) as None.
sanitize_key(file_path) ==
    LET sanitized == trim_start_matches_slash(
                         str_replace(str_replace(file_path, <<".", ".">>, <<>>),
                                     <<"\\">>, <<"/">>))
    IN  IF sanitized = <<>> THEN None ELSE Some(sanitized)

\* S3Storage::store; io_ok is whether put_object succeeds.
S3Storage_store(st, file_data, file_path, io_ok) ==
    LET key == sanitize_key(file_path)
    IN  IF key = None THEN [storage |-> st, ret |-> None, err |-> "InvalidPath"]
        ELSE IF ~io_ok THEN [storage |-> st, ret |-> None, err |-> "S3Error"]
        ELSE [storage |-> Put(st, key[1], file_data), ret |-> key, err |-> ""]

\* S3Storage::delete; io_ok is whether delete_object succeeds.  The call is
\* sent whether or not the key is stored, and the service answers the delete
\* of a key that is not stored as it answers any other.
S3Storage_delete(st, file_path, io_ok) ==
    LET key == sanitize_key(file_path)
    IN  IF key = None THEN [storage |-> st, err |-> "InvalidPath"]
        ELSE IF ~io_ok THEN [storage |-> st, err |-> "S3Error"]
        ELSE [storage |-> Remove(st, {key[1]}), err |-> ""]

\* S3Storage::retrieve; io_ok is whether get_object and the read of its body
\* fail for no other reason than a missing key.
S3Storage_retrieve(st, file_path, io_ok) ==
    LET key == sanitize_key(file_path)
    IN  IF key = None THEN [ret |-> None, err |-> "InvalidPath"]
        ELSE IF ~io_ok THEN [ret |-> None, err |-> "S3Error"]
        ELSE IF key[1] \notin DOMAIN st THEN [ret |-> None, err |-> "FileNotFound"]
        ELSE [ret |-> Some(st[key[1]]), err |-> ""]

\* S3Storage::exists; io_ok is whether head_object fails for no other reason
\* than a missing key.
S3Storage_exists(st, file_path, io_ok) ==
    LET key == sanitize_key(file_path)
    IN  IF key = None THEN [ret |-> None, err |-> "InvalidPath"]
        ELSE IF ~io_ok THEN [ret |-> None, err |-> "S3Error"]
        ELSE [ret |-> Some(key[1] \in DOMAIN st), err |-> ""]

\* StorageService::new with the local backend: LocalStorage::new fails when the
\* base directory is missing and cannot be created (init_ok false).
StorageService_new(init_ok) == IF init_ok THEN "" ELSE "IoError"

(***************************************************************************)
(* Responses                                                               *)
(***************************************************************************)
NoResponse == [status |-> 0, error_type |-> "", message |-> <<>>, body |-> None]

\* Ok(Json(body)) and Ok(StatusCode)
Ok(status, body) ==
    [status |-> status, error_type |-> "", message |-> <<>>, body |-> body]

\* The Display text of the sqlx::Error a refused statement returns.
sqlx_Error_to_string == "error returned from database: FOREIGN KEY constraint failed"

\* AppError::into_response.  A message is the sequence of the parts it is
\* formatted from; "msg" is the text the handler gave the error.
AppError_into_response(error) ==
    CASE error = "ValidationError"     -> [status |-> 400, error_type |-> "validation_error", message |-> <<"msg">>, body |-> None]
      [] error = "NotFound"            -> [status |-> 404, error_type |-> "not_found", message |-> <<"msg">>, body |-> None]
      [] error = "Conflict"            -> [status |-> 409, error_type |-> "conflict", message |-> <<"msg">>, body |-> None]
      [] error = "DatabaseError"       -> [status |-> 500, error_type |-> "database_error", message |-> <<"An internal database error occurred">>, body |-> None]
      [] error = "InternalServerError" -> [status |-> 500, error_type |-> "internal_server_error", message |-> <<"An internal server error occurred">>, body |-> None]

\* The (StatusCode, Json<ErrorResponse>) pairs the photo handlers build themselves.
photo_error(status, error_type, message) ==
    [status |-> status, error_type |-> error_type, message |-> message, body |-> None]

\* The messages of the errors upload_photo finds in the multipart form.
upload_photo_form_message(err) ==
    CASE err = "invalid_file_type"  -> <<"Unsupported file type: ", "{mt}", ". Allowed types: ", "{ALLOWED_MIME_TYPES}">>
      [] err = "file_too_large"     -> <<"File size ", "{data.len()}", " bytes exceeds maximum allowed size of ", "{MAX_FILE_SIZE}", " bytes">>
      [] err = "missing_file"       -> <<"No photo file provided">>
      [] err = "missing_filename"   -> <<"No filename provided">>
      [] err = "missing_mime_type"  -> <<"No MIME type provided">>

(***************************************************************************)
(* Tasks.  pc is the await a task is suspended at; "idle" before its       *)
(* request arrives and "done" once it has responded.                       *)
(***************************************************************************)
Procs == {"t1", "t2"}

\* calls counts the repository calls and the storage calls the task has awaited.
NoCalls == [repository |-> 0, storage |-> 0]

IdleTask ==
    [op |-> "idle", req |-> <<>>, pc |-> "idle", now |-> 0, local |-> <<>>,
     calls |-> NoCalls, resp |-> NoResponse]

\* A repository call returned and the task moves on to its next await.
Await(t, pc, now, local) ==
    task' = [task EXCEPT ![t].pc = pc, ![t].now = now, ![t].local = local,
                         ![t].calls.repository = @ + 1]

\* A repository call returned and the task responds.
Respond(t, resp) ==
    task' = [task EXCEPT ![t].pc = "done", ![t].now = 0, ![t].local = <<>>,
                         ![t].calls.repository = @ + 1, ![t].resp = resp]

\* A storage call returned and the task moves on to its next await.
AwaitAfterStorage(t, pc, now, local) ==
    task' = [task EXCEPT ![t].pc = pc, ![t].now = now, ![t].local = local,
                         ![t].calls.storage = @ + 1]

\* A storage call returned and the task responds.
RespondAfterStorage(t, resp) ==
    task' = [task EXCEPT ![t].pc = "done", ![t].now = 0, ![t].local = <<>>,
                         ![t].calls.storage = @ + 1, ![t].resp = resp]

At(t, op, pc) == task[t].op = op /\ task[t].pc = pc

Arrive(t, r, pc, now) ==
    task' = [task EXCEPT ![t] = [op |-> r.op, req |-> r, pc |-> pc, now |-> now,
                                 local |-> <<>>, calls |-> NoCalls,
                                 resp |-> NoResponse]]

Reject(t, r, resp) ==
    task' = [task EXCEPT ![t] = [op |-> r.op, req |-> r, pc |-> "done", now |-> 0,
                                 local |-> <<>>, calls |-> NoCalls, resp |-> resp]]

(***************************************************************************)
(* handlers/projects.rs.  R is the set of requests clients may send.  The  *)
(* store is taken to be available: a statement fails only on a constraint. *)
(***************************************************************************)
\* create_project up to its first await: validation, then `now` of create.
create_project(t, R) ==
    /\ task[t].pc = "idle"
    /\ \E r \in R :
        /\ r.op = "create_project"
        /\ IF name_rejected(r.body.name) \/ name_rejected(r.body.army)
           THEN Reject(t, r, AppError_into_response("ValidationError"))
           ELSE Arrive(t, r, "create", clock)
    /\ UNCHANGED <<db, storage, clock, uuid_seq>>

\* ProjectRepository::create(...).await, and the response.
create_project_create(t) ==
    /\ At(t, "create_project", "create")
    /\ LET res == ProjectRepository_create(db, task[t].req.body, task[t].now)
       IN  /\ db' = res.db
           /\ Respond(t, Ok(200, Some(res.ret)))
    /\ UNCHANGED <<storage, clock, uuid_seq>>

\* update_project up to its first await: validation, then `now` of update.
update_project(t, R) ==
    /\ task[t].pc = "idle"
    /\ \E r \in R :
        /\ r.op = "update_project"
        /\ IF \/ (is_some(r.body.name) /\ name_rejected(r.body.name[1]))
              \/ (is_some(r.body.army) /\ name_rejected(r.body.army[1]))
           THEN Reject(t, r, AppError_into_response("ValidationError"))
           ELSE Arrive(t, r, "find_by_id", clock)
    /\ UNCHANGED <<db, storage, clock, uuid_seq>>

\* ProjectRepository::update: Self::find_by_id(...).await and the merge.
update_project_find_by_id(t) ==
    /\ At(t, "update_project", "find_by_id")
    /\ LET current == ProjectRepository_find_by_id(db, task[t].req.id)
       IN  IF current = None
           THEN Respond(t, AppError_into_response("NotFound"))
           ELSE Await(t, "update", task[t].now,
                      ProjectRepository_update_merge(task[t].req.body, current[1]))
    /\ UNCHANGED <<db, storage, clock, uuid_seq>>

\* ProjectRepository::update: the UPDATE statement, and the response.
update_project_update(t) ==
    /\ At(t, "update_project", "update")
    /\ LET res == ProjectRepository_update_write(db, task[t].req.id, task[t].local,
                                                 task[t].now)
       IN  /\ db' = res.db
           /\ IF res.ret = None
              THEN Respond(t, AppError_into_response("NotFound"))
              ELSE Respond(t, Ok(200, res.ret))
    /\ UNCHANGED <<storage, clock, uuid_seq>>

\* delete_project up to its first await.
delete_project(t, R) ==
    /\ task[t].pc = "idle"
    /\ \E r \in R : r.op = "delete_project" /\ Arrive(t, r, "delete", 0)
    /\ UNCHANGED <<db, storage, clock, uuid_seq>>

\* ProjectRepository::delete(...).await, and the response.
delete_project_delete(t) ==
    /\ At(t, "delete_project", "delete")
    /\ LET res == ProjectRepository_delete(db, task[t].req.id)
       IN  /\ db' = res.db
           /\ IF res.ret
              THEN Respond(t, Ok(204, None))
              ELSE Respond(t, AppError_into_response("NotFound"))
    /\ UNCHANGED <<storage, clock, uuid_seq>>

(***************************************************************************)
(* handlers/miniatures.rs                                                  *)
(***************************************************************************)
\* create_miniature up to its first await.
create_miniature(t, R) ==
    /\ task[t].pc = "idle"
    /\ \E r \in R : r.op = "create_miniature" /\ Arrive(t, r, "find_by_id", 0)
    /\ UNCHANGED <<db, storage, clock, uuid_seq>>

\* ProjectRepository::find_by_id(...).await, the validation, `now` of create.
create_miniature_find_by_id(t) ==
    /\ At(t, "create_miniature", "find_by_id")
    /\ IF ProjectRepository_find_by_id(db, task[t].req.project_id) = None
       THEN Respond(t, AppError_into_response("NotFound"))
       ELSE IF name_rejected(task[t].req.body.name)
            THEN Respond(t, AppError_into_response("ValidationError"))
       ELSE Await(t, "create", clock, <<>>)
    /\ UNCHANGED <<db, storage, clock, uuid_seq>>

\* MiniatureRepository::create(...).await, and the response.
create_miniature_create(t) ==
    /\ At(t, "create_miniature", "create")
    /\ LET res == MiniatureRepository_create(db, task[t].req.project_id,
                                             task[t].req.body, task[t].now)
       IN  /\ db' = res.db
           /\ IF res.ok
              THEN Respond(t, Ok(200, res.ret))
              ELSE Respond(t, AppError_into_response("DatabaseError"))
    /\ UNCHANGED <<storage, clock, uuid_seq>>

\* list_miniatures on the store d: the project must exist, then its miniatures.
list_miniatures(d, project_id) ==
    IF ProjectRepository_find_by_id(d, project_id) = None
    THEN AppError_into_response("NotFound")
    ELSE Ok(200, Some(MiniatureRepository_find_by_project_id(d, project_id)))

\* update_miniature up to its first await: validation, then `now` of update.
update_miniature(t, R) ==
    /\ task[t].pc = "idle"
    /\ \E r \in R :
        /\ r.op = "update_miniature"
        /\ IF is_some(r.body.name) /\ name_rejected(r.body.name[1])
           THEN Reject(t, r, AppError_into_response("ValidationError"))
           ELSE Arrive(t, r, "find_by_id", clock)
    /\ UNCHANGED <<db, storage, clock, uuid_seq>>

\* MiniatureRepository::update: Self::find_by_id(...).await and the merge.
update_miniature_find_by_id(t) ==
    /\ At(t, "update_miniature", "find_by_id")
    /\ LET current == MiniatureRepository_find_by_id(db, task[t].req.id)
       IN  IF current = None
           THEN Respond(t, AppError_into_response("NotFound"))
           ELSE Await(t, "update", task[t].now,
                      MiniatureRepository_update_merge(task[t].req.body, current[1]))
    /\ UNCHANGED <<db, storage, clock, uuid_seq>>

\* MiniatureRepository::update: the UPDATE statement, and the response.
update_miniature_update(t) ==
    /\ At(t, "update_miniature", "update")
    /\ LET res == MiniatureRepository_update_write(db, task[t].req.id, task[t].local,
                                                   task[t].now)
       IN  /\ db' = res.db
           /\ IF res.ret = None
              THEN Respond(t, AppError_into_response("NotFound"))
              ELSE Respond(t, Ok(200, res.ret))
    /\ UNCHANGED <<storage, clock, uuid_seq>>

\* delete_miniature up to its first await.
delete_miniature(t, R) ==
    /\ task[t].pc = "idle"
    /\ \E r \in R : r.op = "delete_miniature" /\ Arrive(t, r, "delete", 0)
    /\ UNCHANGED <<db, storage, clock, uuid_seq>>

\* delete_miniature removing the stored objects of the photos it cascades to.
delete_miniature_delete_with_cleanup(t) ==
    /\ At(t, "delete_miniature", "delete")
    /\ LET res == MiniatureRepository_delete(db, task[t].req.id)
       IN  /\ db' = res.db
           /\ storage' = Remove(storage, {db.photos[p].file_path :
                                             p \in DOMAIN db.photos \ DOMAIN res.db.photos})
           /\ IF res.ret
              THEN Respond(t, Ok(204, None))
              ELSE Respond(t, AppError_into_response("NotFound"))
    /\ UNCHANGED <<clock, uuid_seq>>

\* MiniatureRepository::delete(...).await, and the response.
delete_miniature_delete(t) ==
    /\ At(t, "delete_miniature", "delete")
    /\ LET res == MiniatureRepository_delete(db, task[t].req.id)
       IN  /\ db' = res.db
           /\ IF res.ret
              THEN Respond(t, Ok(204, None))
              ELSE Respond(t, AppError_into_response("NotFound"))
    /\ UNCHANGED <<storage, clock, uuid_seq>>

(***************************************************************************)
(* handlers/recipes.rs                                                     *)
(***************************************************************************)
\* create_recipe up to its first await: validation, then `now` of create.
create_recipe(t, R) ==
    /\ task[t].pc = "idle"
    /\ \E r \in R :
        /\ r.op = "create_recipe"
        /\ IF recipe_name_rejected(r.body.name)
           THEN Reject(t, r, AppError_into_response("ValidationError"))
           ELSE Arrive(t, r, "create", clock)
    /\ UNCHANGED <<db, storage, clock, uuid_seq>>

\* RecipeRepository::create(...).await, and the response.
create_recipe_create(t) ==
    /\ At(t, "create_recipe", "create")
    /\ LET res == RecipeRepository_create(db, task[t].req.body, task[t].now)
       IN  /\ db' = res.db
           /\ Respond(t, Ok(200, Some(res.ret)))
    /\ UNCHANGED <<storage, clock, uuid_seq>>

\* update_recipe up to its first await: validation, then `now` of update.
update_recipe(t, R) ==
    /\ task[t].pc = "idle"
    /\ \E r \in R :
        /\ r.op = "update_recipe"
        /\ IF is_some(r.body.name) /\ recipe_name_rejected(r.body.name[1])
           THEN Reject(t, r, AppError_into_response("ValidationError"))
           ELSE Arrive(t, r, "find_by_id", clock)
    /\ UNCHANGED <<db, storage, clock, uuid_seq>>

\* RecipeRepository::update: Self::find_by_id(...).await and the merge.
update_recipe_find_by_id(t) ==
    /\ At(t, "update_recipe", "find_by_id")
    /\ LET current == RecipeRepository_find_by_id(db, task[t].req.id)
       IN  IF current = None
           THEN Respond(t, AppError_into_response("NotFound"))
           ELSE Await(t, "update", task[t].now,
                      RecipeRepository_update_merge(task[t].req.body, current[1]))
    /\ UNCHANGED <<db, storage, clock, uuid_seq>>

\* RecipeRepository::update: the UPDATE statement, and the response.
update_recipe_update(t) ==
    /\ At(t, "update_recipe", "update")
    /\ LET res == RecipeRepository_update_write(db, task[t].req.id, task[t].local,
                                                task[t].now)
       IN  /\ db' = res.db
           /\ IF res.ret = None
              THEN Respond(t, AppError_into_response("NotFound"))
              ELSE Respond(t, Ok(200, res.ret))
    /\ UNCHANGED <<storage, clock, uuid_seq>>

\* delete_recipe up to its first await.
delete_recipe(t, R) ==
    /\ task[t].pc = "idle"
    /\ \E r \in R : r.op = "delete_recipe" /\ Arrive(t, r, "delete", 0)
    /\ UNCHANGED <<db, storage, clock, uuid_seq>>

\* RecipeRepository::delete(...).await, and the response.
delete_recipe_delete(t) ==
    /\ At(t, "delete_recipe", "delete")
    /\ LET res == RecipeRepository_delete(db, task[t].req.id)
       IN  /\ db' = res.db
           /\ IF res.ret
              THEN Respond(t, Ok(204, None))
              ELSE Respond(t, AppError_into_response("NotFound"))
    /\ UNCHANGED <<storage, clock, uuid_seq>>

(***************************************************************************)
(* handlers/miniature_recipes.rs                                           *)
(***************************************************************************)
\* link_recipe_to_miniature up to its first await.
link_recipe_to_miniature(t, R) ==
    /\ task[t].pc = "idle"
    /\ \E r \in R : r.op = "link_recipe_to_miniature" /\ Arrive(t, r, "find_miniature", 0)
    /\ UNCHANGED <<db, storage, clock, uuid_seq>>

\* MiniatureRepository::find_by_id(...).await
link_recipe_to_miniature_find_miniature(t) ==
    /\ At(t, "link_recipe_to_miniature", "find_miniature")
    /\ IF MiniatureRepository_find_by_id(db, task[t].req.miniature_id) = None
       THEN Respond(t, AppError_into_response("NotFound"))
       ELSE Await(t, "find_recipe", 0, <<>>)
    /\ UNCHANGED <<db, storage, clock, uuid_seq>>

\* RecipeRepository::find_by_id(...).await
link_recipe_to_miniature_find_recipe(t) ==
    /\ At(t, "link_recipe_to_miniature", "find_recipe")
    /\ IF RecipeRepository_find_by_id(db, task[t].req.recipe_id) = None
       THEN Respond(t, AppError_into_response("NotFound"))
       ELSE Await(t, "link", 0, <<>>)
    /\ UNCHANGED <<db, storage, clock, uuid_seq>>

\* MiniatureRecipeRepository::link(...).await, and the response.
link_recipe_to_miniature_link(t) ==
    /\ At(t, "link_recipe_to_miniature", "link")
    /\ LET res == MiniatureRecipeRepository_link(db, task[t].req.miniature_id,
                                                 task[t].req.recipe_id)
       IN  /\ db' = res.db
           /\ IF res.ok
              THEN Respond(t, Ok(201, None))
              ELSE Respond(t, AppError_into_response("DatabaseError"))
    /\ UNCHANGED <<storage, clock, uuid_seq>>

\* unlink_recipe_from_miniature up to its first await.
unlink_recipe_from_miniature(t, R) ==
    /\ task[t].pc = "idle"
    /\ \E r \in R : r.op = "unlink_recipe_from_miniature" /\ Arrive(t, r, "unlink", 0)
    /\ UNCHANGED <<db, storage, clock, uuid_seq>>

\* MiniatureRecipeRepository::unlink(...).await, and the response.
unlink_recipe_from_miniature_unlink(t) ==
    /\ At(t, "unlink_recipe_from_miniature", "unlink")
    /\ LET res == MiniatureRecipeRepository_unlink(db, task[t].req.miniature_id,
                                                   task[t].req.recipe_id)
       IN  /\ db' = res.db
           /\ IF res.ret
              THEN Respond(t, Ok(204, None))
              ELSE Respond(t, AppError_into_response("NotFound"))
    /\ UNCHANGED <<storage, clock, uuid_seq>>

(***************************************************************************)
(* handlers/photos.rs                                                      *)
(***************************************************************************)
MAX_FILE_SIZE == 10 * 1024 * 1024

ALLOWED_MIME_TYPES == {"image/jpeg", "image/png", "image/webp"}

\* The loop of upload_photo with `data.len() >= MAX_FILE_SIZE` as its size test.
RECURSIVE read_multipart_exclusive(_, _)
read_multipart_exclusive(fields, acc) ==
    IF fields = <<>> THEN acc
    ELSE LET field == Head(fields)
         IN  IF field.name # "photo" THEN read_multipart_exclusive(Tail(fields), acc)
             ELSE IF is_some(field.content_type)
                     /\ field.content_type[1] \notin ALLOWED_MIME_TYPES
                  THEN [acc EXCEPT !.err = "invalid_file_type"]
             ELSE IF field.data.len >= MAX_FILE_SIZE
                  THEN [acc EXCEPT !.err = "file_too_large"]
             ELSE read_multipart_exclusive(Tail(fields),
                                           [err       |-> "",
                                            file_data |-> Some(field.data),
                                            filename  |-> field.file_name,
                                            mime_type |-> field.content_type])

\* The loop of upload_photo over the multipart fields, from the state `acc` of
\* file_data, filename and mime_type: the first error, or the three at the end.
RECURSIVE read_multipart(_, _)
read_multipart(fields, acc) ==
    IF fields = <<>> THEN acc
    ELSE LET field == Head(fields)
         IN  IF field.name # "photo" THEN read_multipart(Tail(fields), acc)
             ELSE IF is_some(field.content_type)
                     /\ field.content_type[1] \notin ALLOWED_MIME_TYPES
                  THEN [acc EXCEPT !.err = "invalid_file_type"]
             ELSE IF field.data.len > MAX_FILE_SIZE
                  THEN [acc EXCEPT !.err = "file_too_large"]
             ELSE read_multipart(Tail(fields),
                                 [err       |-> "",
                                  file_data |-> Some(field.data),
                                  filename  |-> field.file_name,
                                  mime_type |-> field.content_type])

\* upload_photo from the multipart loop to the call of store_photo: the error
\* type of the 400 response, or "" and the three values.
upload_photo_form(fields) ==
    LET form == read_multipart(fields, [err |-> "", file_data |-> None,
                                        filename |-> None, mime_type |-> None])
    IN  IF form.err # "" THEN form
        ELSE IF form.file_data = None THEN [form EXCEPT !.err = "missing_file"]
        ELSE IF form.filename = None THEN [form EXCEPT !.err = "missing_filename"]
        ELSE IF form.mime_type = None THEN [form EXCEPT !.err = "missing_mime_type"]
        ELSE form

\* upload_photo up to its first await.
upload_photo(t, R) ==
    /\ task[t].pc = "idle"
    /\ \E r \in R : r.op = "upload_photo" /\ Arrive(t, r, "find_by_id", 0)
    /\ UNCHANGED <<db, storage, clock, uuid_seq>>

\* MiniatureRepository::find_by_id(...).await, then the multipart form.
upload_photo_find_by_id(t) ==
    /\ At(t, "upload_photo", "find_by_id")
    /\ IF MiniatureRepository_find_by_id(db, task[t].req.miniature_id) = None
       THEN Respond(t, photo_error(404, "not_found",
                                   <<"Miniature with id ", "{miniature_id}", " not found">>))
       ELSE LET form == upload_photo_form(task[t].req.fields)
            IN  IF form.err # ""
                THEN Respond(t, photo_error(400, form.err, upload_photo_form_message(form.err)))
                ELSE Await(t, "store_photo", 0,
                           [file_data |-> form.file_data[1],
                            filename  |-> form.filename[1],
                            mime_type |-> form.mime_type[1]])
    /\ UNCHANGED <<db, storage, clock, uuid_seq>>

\* storage_service.store_photo(...).await, then `now` of PhotoRepository::create.
upload_photo_store_photo(t) ==
    /\ At(t, "upload_photo", "store_photo")
    /\ \E init_ok \in BOOLEAN, io_ok \in BOOLEAN :
        LET key == store_photo_key(task[t].local.filename, task[t].req.miniature_id,
                                   uuid_seq + 1)
            res == IF StorageService_new(init_ok) # ""
                   THEN [storage |-> storage, ret |-> None, err |-> "IoError"]
                   ELSE LocalStorage_store(storage, task[t].local.file_data, key, io_ok)
        IN  /\ storage' = res.storage
            /\ uuid_seq' = IF StorageService_new(init_ok) # "" THEN uuid_seq
                           ELSE uuid_seq + 1
            /\ IF res.ret = None
               THEN RespondAfterStorage(t, photo_error(500, "storage_error",
                       IF StorageService_new(init_ok) # ""
                       THEN <<"Storage initialization error: ", StorageService_new(init_ok)>>
                       ELSE <<"Failed to store photo: ", res.err>>))
               ELSE AwaitAfterStorage(t, "create", clock,
                                      [file_data |-> task[t].local.file_data,
                                       filename  |-> task[t].local.filename,
                                       mime_type |-> task[t].local.mime_type,
                                       file_path |-> res.ret[1]])
    /\ UNCHANGED <<db, clock>>

\* PhotoRepository::create(...).await, and the response.
upload_photo_create(t) ==
    /\ At(t, "upload_photo", "create")
    /\ LET l   == task[t].local
           res == PhotoRepository_create(db, task[t].req.miniature_id, l.filename,
                                         l.file_path, l.file_data.len, l.mime_type,
                                         task[t].now)
       IN  /\ db' = res.db
           /\ IF res.ok
              THEN Respond(t, Ok(200, res.ret))
              ELSE Respond(t, photo_error(500, "database_error",
                              <<"Failed to save photo record: ", sqlx_Error_to_string>>))
    /\ UNCHANGED <<storage, clock, uuid_seq>>

\* delete_photo up to its first await.
delete_photo(t, R) ==
    /\ task[t].pc = "idle"
    /\ \E r \in R : r.op = "delete_photo" /\ Arrive(t, r, "find_by_id", 0)
    /\ UNCHANGED <<db, storage, clock, uuid_seq>>

\* PhotoRepository::delete: Self::find_by_id(...).await
delete_photo_find_by_id(t) ==
    /\ At(t, "delete_photo", "find_by_id")
    /\ LET photo == PhotoRepository_find_by_id(db, task[t].req.photo_id)
       IN  IF photo = None
           THEN Respond(t, photo_error(404, "not_found",
                                       <<"Photo with id ", "{photo_id}", " not found">>))
           ELSE Await(t, "delete", 0, photo[1])
    /\ UNCHANGED <<db, storage, clock, uuid_seq>>

\* PhotoRepository::delete: the DELETE statement.
delete_photo_delete(t) ==
    /\ At(t, "delete_photo", "delete")
    /\ LET res == PhotoRepository_delete_exec(db, task[t].req.photo_id,
                                              Some(task[t].local))
       IN  /\ db' = res.db
           /\ IF res.ret = None
              THEN Respond(t, photo_error(404, "not_found",
                                          <<"Photo with id ", "{photo_id}", " not found">>))
              ELSE Await(t, "delete_photo", 0, res.ret[1])
    /\ UNCHANGED <<storage, clock, uuid_seq>>

\* StorageService::new(...).await, whose error is answered with a 500, then
\* storage_service.delete_photo(...).await, whose error is only logged.
delete_photo_delete_photo(t) ==
    /\ At(t, "delete_photo", "delete_photo")
    /\ \E init_ok \in BOOLEAN, io_ok \in BOOLEAN :
        IF StorageService_new(init_ok) # ""
        THEN /\ storage' = storage
             /\ RespondAfterStorage(t, photo_error(500, "storage_error",
                    <<"Storage initialization error: ", StorageService_new(init_ok)>>))
        ELSE LET res == LocalStorage_delete(storage, task[t].local.file_path, io_ok)
             IN  /\ storage' = res.storage
                 /\ RespondAfterStorage(t, Ok(204, None))
    /\ UNCHANGED <<db, clock, uuid_seq>>

(***************************************************************************)
(* The wall clock: Utc::now() reads it, and two readings may be equal.     *)
(***************************************************************************)
Tick ==
    /\ clock < MaxClock
    /\ clock' = clock + 1
    /\ UNCHANGED <<db, storage, uuid_seq, task>>

(***************************************************************************)
(* Initial states.  Besides the empty store, the model starts from stores  *)
(* that earlier requests have filled; each is built with the operations    *)
(* above, at clock reading 0, so each is a state the program reaches.      *)
(***************************************************************************)
Name_a == <<"a">>

png(content) == [len |-> 1, content |-> content]

\* One stored photo: store_photo with the n-th uuid, then PhotoRepository::create.
WithPhoto(s, miniature_id, filename, data, mime_type) ==
    LET stored == LocalStorage_store(s.storage, data,
                      store_photo_key(filename, miniature_id, s.uuid_seq + 1), TRUE)
    IN  [db       |-> PhotoRepository_create(s.db, miniature_id, filename,
                          stored.ret[1], data.len, mime_type, 0).db,
         storage  |-> stored.storage,
         uuid_seq |-> s.uuid_seq + 1]

WithDb(s, d) == [s EXCEPT !.db = d]

SeedEmpty == [db |-> EmptyDb, storage |-> EmptyTable, uuid_seq |-> 0]

\* Project 1 with miniature 1, recipe 1 linked to it, and photo 1.
SeedOne ==
    LET d1 == ProjectRepository_create(EmptyDb,
                  [name |-> Name_a, game_system |-> "warhammer_40k", army |-> Name_a,
                   description |-> None], 0).db
        d2 == MiniatureRepository_create(d1, 1,
                  [name |-> Name_a, miniature_type |-> "character", notes |-> None], 0).db
        d3 == RecipeRepository_create(d2,
                  [name |-> Name_a, miniature_type |-> "character",
                   steps |-> << <<"a">> >>, paints_used |-> <<>>,
                   techniques |-> <<>>, notes |-> None], 0).db
        d4 == MiniatureRecipeRepository_link(d3, 1, 1).db
    IN  WithPhoto(WithDb(SeedEmpty, d4), 1, <<"a", ".", "png">>, png("x"), "image/png")

\* SeedOne, and: miniature 2 of project 1 with photo 2, a second photo 3 of
\* miniature 1, recipe 2, project 2 with miniature 3 and its photo 4, and the
\* links (2, 1), (1, 2) and (3, 2).
SeedTwo ==
    LET d1 == MiniatureRepository_create(SeedOne.db, 1,
                  [name |-> Name_a, miniature_type |-> "troop",
                   notes |-> Some(<<"n">>)], 0).db
        d2 == RecipeRepository_create(d1,
                  [name |-> Name_a, miniature_type |-> "troop",
                   steps |-> <<>>, paints_used |-> << <<"a">> >>,
                   techniques |-> << <<"a">> >>, notes |-> Some(<<"n">>)], 0).db
        d3 == ProjectRepository_create(d2,
                  [name |-> Name_a, game_system |-> "horus_heresy", army |-> Name_a,
                   description |-> Some(<<"d">>)], 0).db
        d4 == MiniatureRepository_create(d3, 2,
                  [name |-> Name_a, miniature_type |-> "troop", notes |-> None], 0).db
        d5 == MiniatureRecipeRepository_link(d4, 2, 1).db
        d6 == MiniatureRecipeRepository_link(d5, 1, 2).db
        d7 == MiniatureRecipeRepository_link(d6, 3, 2).db
        s1 == WithPhoto(WithDb(SeedOne, d7), 2, <<"a", ".", "png">>, png("x"), "image/png")
        s2 == WithPhoto(s1, 1, <<"a", ".", "png">>, png("x"), "image/png")
    IN  WithPhoto(s2, 3, <<"a", ".", "png">>, png("x"), "image/png")

Seeds == {SeedEmpty, SeedOne, SeedTwo}

Init ==
    /\ \E s \in Seeds :
        /\ db = s.db
        /\ storage = s.storage
        /\ uuid_seq = s.uuid_seq
    /\ clock = 0
    /\ task = [t \in Procs |-> IdleTask]

(***************************************************************************)
(* The requests clients send.                                              *)
(***************************************************************************)
Opt(S) == {None} \cup {Some(v) : v \in S}

\* Every string of at most MaxLen characters.
AllNames == UNION {[1..n -> Chars] : n \in 0..MaxLen}

\* A name the handlers accept and one they reject.
NameSamples == {<<"!">>, <<" ">>}

ProjectIds == {1, 2}

MiniatureIds == {1, 2}

RecipeIds == {1, 2}

PhotoIds == {1, 2}

ProgressStatuses == {"unpainted", "primed", "basecoated", "detailed", "completed"}

StepsSamples == {<<>>, << <<"\"", ",">>, <<"\\", "]">> >>}

PhotoField(content_type, len) ==
    [name |-> "photo", file_name |-> Some(<<"a", ".", "png">>),
     content_type |-> content_type, data |-> [len |-> len, content |-> "y"]]

\* The requests of the concurrent system: per handler few bodies, each update
\* providing one field.
Requests ==
    {[op |-> "create_project",
      body |-> [name |-> n, game_system |-> "age_of_sigmar", army |-> <<"!">>,
                description |-> None]] : n \in NameSamples}
    \cup {[op |-> "update_project", id |-> id, body |-> b] :
            id \in ProjectIds,
            b \in {[name |-> Some(n), game_system |-> None, army |-> None,
                    description |-> None] : n \in NameSamples}
                  \cup {[name |-> None, game_system |-> Some("age_of_sigmar"),
                         army |-> None, description |-> None],
                        [name |-> None, game_system |-> None, army |-> None,
                         description |-> Some(<<"e">>)]}}
    \cup {[op |-> "delete_project", id |-> id] : id \in ProjectIds}
    \cup {[op |-> "create_miniature", project_id |-> id,
           body |-> [name |-> n, miniature_type |-> "troop", notes |-> None]] :
            id \in ProjectIds, n \in NameSamples}
    \cup {[op |-> "update_miniature", id |-> id, body |-> b] :
            id \in MiniatureIds,
            b \in {[name |-> Some(n), progress_status |-> None, notes |-> None] :
                      n \in NameSamples}
                  \cup {[name |-> None, progress_status |-> Some(st), notes |-> None] :
                          st \in ProgressStatuses}
                  \cup {[name |-> None, progress_status |-> None,
                         notes |-> Some(<<"m">>)]}}
    \cup {[op |-> "delete_miniature", id |-> id] : id \in MiniatureIds}
    \cup {[op |-> "create_recipe",
           body |-> [name |-> n, miniature_type |-> "troop", steps |-> <<>>,
                     paints_used |-> <<>>, techniques |-> <<>>, notes |-> None]] :
            n \in NameSamples}
    \cup {[op |-> "update_recipe", id |-> id, body |-> b] :
            id \in RecipeIds,
            b \in {[name |-> Some(n), steps |-> None, paints_used |-> None,
                    techniques |-> None, notes |-> None] : n \in NameSamples}
                  \cup {[name |-> None, steps |-> Some(<< <<"b">> >>),
                         paints_used |-> None, techniques |-> None, notes |-> None]}}
    \cup {[op |-> "delete_recipe", id |-> id] : id \in RecipeIds}
    \cup {[op |-> o, miniature_id |-> m, recipe_id |-> r] :
            o \in {"link_recipe_to_miniature", "unlink_recipe_from_miniature"},
            m \in MiniatureIds, r \in RecipeIds}
    \cup {[op |-> "upload_photo", miniature_id |-> m, fields |-> <<f>>] :
            m \in MiniatureIds,
            f \in {PhotoField(Some("image/png"), 1),
                   PhotoField(Some("image/jpg"), 1),
                   PhotoField(Some("image/png"), MAX_FILE_SIZE + 1)}}
    \cup {[op |-> "delete_photo", photo_id |-> id] : id \in PhotoIds}

(***************************************************************************)
(* Next-state relations                                                    *)
(***************************************************************************)
\* One step of the task t, whose request is one of R.
Handle(t, R) ==
    \/ create_project(t, R)
    \/ create_project_create(t)
    \/ update_project(t, R)
    \/ update_project_find_by_id(t)
    \/ update_project_update(t)
    \/ delete_project(t, R)
    \/ delete_project_delete(t)
    \/ create_miniature(t, R)
    \/ create_miniature_find_by_id(t)
    \/ create_miniature_create(t)
    \/ update_miniature(t, R)
    \/ update_miniature_find_by_id(t)
    \/ update_miniature_update(t)
    \/ delete_miniature(t, R)
    \/ delete_miniature_delete(t)
    \/ create_recipe(t, R)
    \/ create_recipe_create(t)
    \/ update_recipe(t, R)
    \/ update_recipe_find_by_id(t)
    \/ update_recipe_update(t)
    \/ delete_recipe(t, R)
    \/ delete_recipe_delete(t)
    \/ link_recipe_to_miniature(t, R)
    \/ link_recipe_to_miniature_find_miniature(t)
    \/ link_recipe_to_miniature_find_recipe(t)
    \/ link_recipe_to_miniature_link(t)
    \/ unlink_recipe_from_miniature(t, R)
    \/ unlink_recipe_from_miniature_unlink(t)
    \/ upload_photo(t, R)
    \/ upload_photo_find_by_id(t)
    \/ upload_photo_store_photo(t)
    \/ upload_photo_create(t)
    \/ delete_photo(t, R)
    \/ delete_photo_find_by_id(t)
    \/ delete_photo_delete(t)
    \/ delete_photo_delete_photo(t)

\* The concurrent system: every task handles one request.
Next == (\E t \in Procs : Handle(t, Requests)) \/ Tick

Spec == Init /\ [][Next]_vars

(***************************************************************************)
(* One request at a time, over wider inputs: every string of at most       *)
(* MaxLen characters as a name, every combination of provided and omitted  *)
(* fields in an update, and the multipart forms around the upload limits.  *)
(***************************************************************************)
NotesSamples == {None, Some(<<>>), Some(<<"e">>)}

ContentTypes ==
    {"image/jpeg", "image/png", "image/webp", "image/jpg", "IMAGE/PNG", "image/gif"}

FileSizes == {0, MAX_FILE_SIZE, MAX_FILE_SIZE + 1}

MultipartField(name, file_name, content_type, len) ==
    [name |-> name, file_name |-> file_name, content_type |-> content_type,
     data |-> [len |-> len, content |-> "y"]]

MultipartForms ==
    {<<>>, <<MultipartField("caption", None, None, 1)>>}
    \cup {<<MultipartField("photo", f, c, n)>> :
            f \in Opt({<<"a", ".", "png">>, <<"a">>}), c \in Opt(ContentTypes),
            n \in FileSizes}
    \cup {<<MultipartField("photo", Some(<<"a", ".", "png">>), Some("image/png"), 1),
            MultipartField("photo", Some(<<"b", ".", "png">>), c, n)>> :
            c \in {Some("image/jpeg"), Some("image/gif")},
            n \in {1, MAX_FILE_SIZE + 1}}

\* Updates in which every field is provided or omitted, names being samples.
ProjectUpdates ==
    [name : Opt(NameSamples), game_system : Opt({"age_of_sigmar"}),
     army : Opt(NameSamples), description : NotesSamples]

MiniatureUpdates ==
    [name : Opt(NameSamples), progress_status : Opt(ProgressStatuses),
     notes : NotesSamples]

RecipeUpdates ==
    [name : Opt(NameSamples), steps : Opt(StepsSamples),
     paints_used : Opt({<< <<"b">> >>}), techniques : Opt({<<>>}),
     notes : NotesSamples]

NoProjectUpdate ==
    [name |-> None, game_system |-> None, army |-> None, description |-> None]

NoMiniatureUpdate == [name |-> None, progress_status |-> None, notes |-> None]

NoRecipeUpdate ==
    [name |-> None, steps |-> None, paints_used |-> None, techniques |-> None,
     notes |-> None]

SeqRequests ==
    Requests
    \cup {[op |-> "create_project",
           body |-> [name |-> n, game_system |-> "age_of_sigmar", army |-> a,
                     description |-> Some(<<"e">>)]] :
            n \in AllNames, a \in NameSamples}
    \cup {[op |-> "create_project",
           body |-> [name |-> <<"!">>, game_system |-> "age_of_sigmar", army |-> a,
                     description |-> None]] : a \in AllNames}
    \cup {[op |-> "update_project", id |-> id, body |-> b] :
            id \in ProjectIds, b \in ProjectUpdates}
    \cup {[op |-> "update_project", id |-> id,
           body |-> [NoProjectUpdate EXCEPT !.name = Some(n)]] :
            id \in ProjectIds, n \in AllNames}
    \cup {[op |-> "update_project", id |-> id,
           body |-> [NoProjectUpdate EXCEPT !.army = Some(n)]] :
            id \in ProjectIds, n \in AllNames}
    \cup {[op |-> "create_miniature", project_id |-> id,
           body |-> [name |-> n, miniature_type |-> "troop",
                     notes |-> Some(<<"e">>)]] :
            id \in ProjectIds, n \in AllNames}
    \cup {[op |-> "update_miniature", id |-> id, body |-> b] :
            id \in MiniatureIds, b \in MiniatureUpdates}
    \cup {[op |-> "update_miniature", id |-> id,
           body |-> [NoMiniatureUpdate EXCEPT !.name = Some(n)]] :
            id \in MiniatureIds, n \in AllNames}
    \cup {[op |-> "create_recipe",
           body |-> [name |-> n, miniature_type |-> "troop", steps |-> st,
                     paints_used |-> <<>>, techniques |-> << <<"a">>, <<"b">> >>,
                     notes |-> None]] :
            n \in NameSamples, st \in StepsSamples}
    \cup {[op |-> "create_recipe",
           body |-> [name |-> n, miniature_type |-> "character", steps |-> <<>>,
                     paints_used |-> <<>>, techniques |-> <<>>,
                     notes |-> Some(<<"e">>)]] : n \in AllNames}
    \cup {[op |-> "update_recipe", id |-> id, body |-> b] :
            id \in RecipeIds, b \in RecipeUpdates}
    \cup {[op |-> "update_recipe", id |-> id,
           body |-> [NoRecipeUpdate EXCEPT !.name = Some(n)]] :
            id \in RecipeIds, n \in AllNames}
    \cup {[op |-> "upload_photo", miniature_id |-> m, fields |-> f] :
            m \in MiniatureIds, f \in MultipartForms}

NextSeq == Handle("t1", SeqRequests) \/ Tick

SpecSeq == Init /\ [][NextSeq]_vars

(***************************************************************************)
(* The storage and repository interfaces called directly, as the           *)
(* repository's tests call them: Storage::store and Storage::delete on     *)
(* either backend with any key, and PhotoRepository::create with any       *)
(* file_path.  A deployment has one backend, so the calls of one behaviour *)
(* name the same backend.                                                  *)
(***************************************************************************)
\* Keys tried against the storage backends have at most MaxKeyLen characters.
MaxKeyLen == 4

KeyChars == {".", "/", "\\", "a"}

AllKeys == UNION {[1..n -> KeyChars] : n \in 0..MaxKeyLen}

SampleKeys == {<<"a">>, <<".", ".", "/", "a">>}

Backends == {"local", "s3"}

\* Storage::store: the call on the configured backend.
Storage_store(st, backend, file_data, file_path, io_ok) ==
    IF backend = "local" THEN LocalStorage_store(st, file_data, file_path, io_ok)
    ELSE S3Storage_store(st, file_data, file_path, io_ok)

\* Storage::delete: the call on the configured backend.
Storage_delete(st, backend, file_path, io_ok) ==
    IF backend = "local" THEN LocalStorage_delete(st, file_path, io_ok)
    ELSE S3Storage_delete(st, file_path, io_ok)

\* Storage::retrieve: the call on the configured backend.
Storage_retrieve(st, backend, file_path, io_ok) ==
    IF backend = "local" THEN LocalStorage_retrieve(st, file_path, io_ok)
    ELSE S3Storage_retrieve(st, file_path, io_ok)

\* Storage::exists: the call on the configured backend.
Storage_exists(st, backend, file_path, io_ok) ==
    IF backend = "local" THEN LocalStorage_exists(st, file_path)
    ELSE S3Storage_exists(st, file_path, io_ok)

\* The call r of task t has returned with resp.
Return(t, r, resp) ==
    task' = [task EXCEPT ![t] = [op |-> r.op, req |-> r, pc |-> "done", now |-> 0,
                                 local |-> <<>>, calls |-> NoCalls, resp |-> resp]]

SameBackend(r) ==
    \A u \in Procs :
        task[u].op \in {"storage_store", "storage_delete", "storage_retrieve",
                        "storage_exists"} => task[u].req.backend = r.backend

\* storage.store(file_data, file_path).await
storage_store(t, R) ==
    /\ task[t].pc = "idle"
    /\ \E r \in R, io_ok \in BOOLEAN :
        /\ r.op = "storage_store"
        /\ SameBackend(r)
        /\ LET res == Storage_store(storage, r.backend, r.file_data, r.file_path, io_ok)
           IN  /\ storage' = res.storage
               /\ Return(t, r, [status |-> 0, error_type |-> res.err, message |-> <<>>, body |-> res.ret])
    /\ UNCHANGED <<db, clock, uuid_seq>>

\* storage.delete(file_path).await
storage_delete(t, R) ==
    /\ task[t].pc = "idle"
    /\ \E r \in R, io_ok \in BOOLEAN :
        /\ r.op = "storage_delete"
        /\ SameBackend(r)
        /\ LET res == Storage_delete(storage, r.backend, r.file_path, io_ok)
           IN  /\ storage' = res.storage
               /\ Return(t, r, [status |-> 0, error_type |-> res.err, message |-> <<>>, body |-> None])
    /\ UNCHANGED <<db, clock, uuid_seq>>

\* storage.retrieve(file_path).await
storage_retrieve(t, R) ==
    /\ task[t].pc = "idle"
    /\ \E r \in R, io_ok \in BOOLEAN :
        /\ r.op = "storage_retrieve"
        /\ SameBackend(r)
        /\ LET res == Storage_retrieve(storage, r.backend, r.file_path, io_ok)
           IN  Return(t, r, [status |-> 0, error_type |-> res.err, message |-> <<>>,
                             body |-> res.ret])
    /\ UNCHANGED <<db, storage, clock, uuid_seq>>

\* storage.exists(file_path).await
storage_exists(t, R) ==
    /\ task[t].pc = "idle"
    /\ \E r \in R, io_ok \in BOOLEAN :
        /\ r.op = "storage_exists"
        /\ SameBackend(r)
        /\ LET res == Storage_exists(storage, r.backend, r.file_path, io_ok)
           IN  Return(t, r, [status |-> 0, error_type |-> res.err, message |-> <<>>,
                             body |-> res.ret])
    /\ UNCHANGED <<db, storage, clock, uuid_seq>>

\* PhotoRepository::create(database, miniature_id, filename, file_path, ...).await
photo_repository_create(t, R) ==
    /\ task[t].pc = "idle"
    /\ \E r \in R :
        /\ r.op = "photo_repository_create"
        /\ LET res == PhotoRepository_create(db, r.miniature_id, r.filename, r.file_path,
                                             r.file_size, r.mime_type, clock)
           IN  /\ db' = res.db
               /\ Return(t, r, [status |-> 0,
                                error_type |-> IF res.ok THEN "" ELSE "database_error",
                                message |-> <<>>,
                                body |-> res.ret])
    /\ UNCHANGED <<storage, clock, uuid_seq>>

StorageCalls(keys, file_data) ==
    {[op |-> o, backend |-> b, file_data |-> file_data, file_path |-> k] :
        o \in {"storage_store", "storage_delete"}, b \in Backends, k \in keys}

\* The calls that read: the keys as they may be asked for and as store returns them.
ReadCalls(keys) ==
    {[op |-> o, backend |-> b, file_path |-> k] :
        o \in {"storage_retrieve", "storage_exists"}, b \in Backends, k \in keys}

PhotoCreateCalls(paths) ==
    {[op |-> "photo_repository_create", miniature_id |-> m, filename |-> k,
      file_path |-> <<"/", "uploads", "/">> \o k, file_size |-> 1024,
      mime_type |-> "image/jpeg"] : m \in MiniatureIds, k \in paths}

Api(t, R) ==
    \/ storage_store(t, R)
    \/ storage_delete(t, R)
    \/ storage_retrieve(t, R)
    \/ storage_exists(t, R)
    \/ photo_repository_create(t, R)

NextApi ==
    \/ Api("t1", StorageCalls(AllKeys, png("z")) \cup ReadCalls(SampleKeys)
                     \cup PhotoCreateCalls(AllKeys))
    \/ Api("t2", StorageCalls(SampleKeys, png("w")) \cup PhotoCreateCalls(SampleKeys))

SpecApi == Init /\ [][NextApi]_vars

(***************************************************************************)
(* Properties                                                              *)
(***************************************************************************)
\* The task t takes the step that ends its request of kind op at the await pc.
Ends(t, op, pc) == At(t, op, pc) /\ task'[t].pc = "done"

Done(t, op) == task[t].op = op /\ task[t].pc = "done"

MiniaturesOf(d, project_id) ==
    {m \in DOMAIN d.miniatures : d.miniatures[m].project_id = project_id}

PhotosOf(d, ms) == {p \in DOMAIN d.photos : d.photos[p].miniature_id \in ms}

\* C1: when ProjectRepository::delete(p) returns true (the handler answers 204),
\* the state it leaves has no project p, no miniature of p, none of the photos
\* that belonged to p's miniatures and no recipe link of those miniatures.
C1_ProjectDeleteCascades ==
    [][\A t \in Procs :
        (Ends(t, "delete_project", "delete") /\ task'[t].resp.status = 204) =>
            LET p  == task[t].req.id
                ms == MiniaturesOf(db, p)
            IN  /\ p \notin DOMAIN db'.projects
                /\ MiniaturesOf(db', p) = {}
                /\ DOMAIN db'.miniatures \cap ms = {}
                /\ DOMAIN db'.photos \cap PhotosOf(db, ms) = {}
                /\ PhotosOf(db', ms) = {}
                /\ \A l \in DOMAIN db'.miniature_recipes : l[1] \notin ms]_vars

\* C1 witness: project 1, which had two miniatures, three photos and three
\* links, was deleted; what is left is project 2 with its miniature 3.
C1_Witness ==
    \E t \in Procs :
        /\ Done(t, "delete_project")
        /\ task[t].req.id = 1
        /\ task[t].resp.status = 204
        /\ db.seq.miniatures = 3
        /\ db.seq.photos = 4
        /\ DOMAIN db.projects = {2}
        /\ DOMAIN db.miniatures = {3}
        /\ DOMAIN db.photos = {4}
        /\ DOMAIN db.miniature_recipes = {<<3, 2>>}

\* C2: when MiniatureRepository::delete(m) returns true, no photo of m and no
\* link row (m, r) remains, and every recipe that was linked to m is still
\* there with every column unchanged.
C2_MiniatureDeleteKeepsRecipes ==
    [][\A t \in Procs :
        (Ends(t, "delete_miniature", "delete") /\ task'[t].resp.status = 204) =>
            LET m == task[t].req.id
            IN  /\ m \notin DOMAIN db'.miniatures
                /\ PhotosOf(db', {m}) = {}
                /\ DOMAIN db'.photos \cap PhotosOf(db, {m}) = {}
                /\ \A l \in DOMAIN db'.miniature_recipes : l[1] # m
                /\ \A l \in DOMAIN db.miniature_recipes :
                      l[1] = m =>
                          /\ l[2] \in DOMAIN db'.painting_recipes
                          /\ db'.painting_recipes[l[2]] = db.painting_recipes[l[2]]]_vars

\* C2 witness: miniature 1, which had photos 1 and 3 and links to recipes 1 and
\* 2, was deleted; both recipes are still there.
C2_Witness ==
    \E t \in Procs :
        /\ Done(t, "delete_miniature")
        /\ task[t].req.id = 1
        /\ task[t].resp.status = 204
        /\ db.seq.photos = 4
        /\ DOMAIN db.miniatures = {2, 3}
        /\ DOMAIN db.photos = {2, 4}
        /\ DOMAIN db.miniature_recipes = {<<2, 1>>, <<3, 2>>}
        /\ DOMAIN db.painting_recipes = {1, 2}

\* The value an update must leave in a field: the provided one, else the old.
Merged(provided, old) == IF provided # None THEN provided[1] ELSE old

\* C3: an update of an existing project, miniature or recipe, with no other
\* writer, leaves every omitted field as it was and every provided field at the
\* provided value, and returns the record a following find_by_id returns.
C3_UpdateMerges ==
    [][/\ (Ends("t1", "update_project", "update") /\ task'["t1"].resp.status = 200) =>
            LET id  == task["t1"].req.id
                b   == task["t1"].req.body
                old == db.projects[id]
                new == ProjectRepository_find_by_id(db', id)
            IN  /\ new # None
                /\ task'["t1"].resp.body = new
                /\ new[1].name = Merged(b.name, old.name)
                /\ new[1].game_system = Merged(b.game_system, old.game_system)
                /\ new[1].army = Merged(b.army, old.army)
                /\ new[1].description =
                       (IF b.description # None THEN b.description ELSE old.description)
       /\ (Ends("t1", "update_miniature", "update") /\ task'["t1"].resp.status = 200) =>
            LET id  == task["t1"].req.id
                b   == task["t1"].req.body
                old == db.miniatures[id]
                new == MiniatureRepository_find_by_id(db', id)
            IN  /\ new # None
                /\ task'["t1"].resp.body = new
                /\ new[1].name = Merged(b.name, old.name)
                /\ new[1].progress_status = Merged(b.progress_status, old.progress_status)
                /\ new[1].notes = (IF b.notes # None THEN b.notes ELSE old.notes)
       /\ (Ends("t1", "update_recipe", "update") /\ task'["t1"].resp.status = 200) =>
            LET id  == task["t1"].req.id
                b   == task["t1"].req.body
                old == RecipeRepository_find_by_id(db, id)[1]
                new == RecipeRepository_find_by_id(db', id)
            IN  /\ new # None
                /\ task'["t1"].resp.body = new
                /\ new[1].name = Merged(b.name, old.name)
                /\ new[1].steps = Merged(b.steps, old.steps)
                /\ new[1].paints_used = Merged(b.paints_used, old.paints_used)
                /\ new[1].techniques = Merged(b.techniques, old.techniques)
                /\ new[1].notes = (IF b.notes # None THEN b.notes ELSE old.notes)]_vars

\* C3 witness: an update of project 2 that provided the name and an empty
\* description and omitted game_system and army has answered 200.
C3_Witness ==
    /\ Done("t1", "update_project")
    /\ task["t1"].resp.status = 200
    /\ task["t1"].req.id = 2
    /\ task["t1"].req.body =
           [name |-> Some(<<"!">>), game_system |-> None, army |-> None,
            description |-> Some(<<>>)]
    /\ db.projects[2].name = <<"!">>
    /\ db.projects[2].game_system = "horus_heresy"
    /\ db.projects[2].description = Some(<<>>)

\* The fields of an UpdateMiniatureRequest.
MiniatureFields == {"name", "progress_status", "notes"}

\* The update request b provides the field f and no other field.
ProvidesOnly(b, f) == \A g \in MiniatureFields : (b[g] # None) <=> (g = f)

\* The value the column f holds once the provided b[f] is stored.
Stored(b, f) == IF f = "notes" THEN b[f] ELSE b[f][1]

\* C4: two updates of one miniature that provide different fields f and g can
\* both read the record before either writes.  Whenever the later writer t
\* writes from a record read before the earlier writer u stored its field f,
\* t answers 200 as u did, the row holds t's field g, and the field f is back
\* at the value it had before u's update.
C4_LostUpdate ==
    [][\A t \in Procs, u \in Procs, f \in MiniatureFields, g \in MiniatureFields :
        (/\ t # u /\ f # g
         /\ Ends(t, "update_miniature", "update")
         /\ Done(u, "update_miniature")
         /\ task[u].resp.status = 200
         /\ task[u].req.id = task[t].req.id
         /\ ProvidesOnly(task[u].req.body, f)
         /\ ProvidesOnly(task[t].req.body, g)
         /\ task[t].req.id \in DOMAIN db.miniatures
         /\ db.miniatures[task[t].req.id][f] = Stored(task[u].req.body, f)
         /\ task[t].local[f] # db.miniatures[task[t].req.id][f])
        => /\ task'[t].resp.status = 200
           /\ db'.miniatures[task[t].req.id][g] = Stored(task[t].req.body, g)
           /\ db'.miniatures[task[t].req.id][f] = task[t].local[f]
           /\ db'.miniatures[task[t].req.id][f] # Stored(task[u].req.body, f)]_vars

\* C4 witness: one update set the name of miniature 1 to "!", the other set its
\* progress_status; both answered 200 and the row has its old name "a".
C4_Witness ==
    \E t \in Procs, u \in Procs :
        /\ Done(t, "update_miniature") /\ Done(u, "update_miniature")
        /\ task[t].resp.status = 200 /\ task[u].resp.status = 200
        /\ task[t].req.id = 1 /\ task[u].req.id = 1
        /\ task[u].req.body.name = Some(<<"!">>)
        /\ task[u].resp.body[1].name = <<"!">>
        /\ task[t].req.body.progress_status = Some("completed")
        /\ 1 \in DOMAIN db.miniatures
        /\ db.miniatures[1].name = Name_a
        /\ db.miniatures[1].progress_status = "completed"

\* The rule of the claim, stated on the characters of s: s has a character
\* that is not white space, and one that is alphanumeric or ASCII punctuation.
Acceptable(s) ==
    /\ \E i \in 1..Len(s) : ~is_whitespace(s[i])
    /\ \E i \in 1..Len(s) : is_alphanumeric(s[i]) \/ is_ascii_punctuation(s[i])

AcceptableIfPresent(o) == o = None \/ Acceptable(o[1])

\* C5: create_project, create_miniature on an existing project, update_project
\* and update_miniature answer a validation error exactly when a name or army
\* of the request (on update: one that is present) is not Acceptable.
C5_NameRule ==
    /\ Done("t1", "create_project") =>
          ((task["t1"].resp.error_type # "validation_error")
               <=> (/\ Acceptable(task["t1"].req.body.name)
                    /\ Acceptable(task["t1"].req.body.army)))
    /\ (Done("t1", "create_miniature") /\ task["t1"].req.project_id \in DOMAIN db.projects) =>
          /\ (task["t1"].resp.error_type # "validation_error")
                 <=> Acceptable(task["t1"].req.body.name)
          /\ Acceptable(task["t1"].req.body.name) => task["t1"].resp.status = 200
    /\ Done("t1", "update_project") =>
          ((task["t1"].resp.error_type # "validation_error")
               <=> (/\ AcceptableIfPresent(task["t1"].req.body.name)
                    /\ AcceptableIfPresent(task["t1"].req.body.army)))
    /\ Done("t1", "update_miniature") =>
          ((task["t1"].resp.error_type # "validation_error")
               <=> AcceptableIfPresent(task["t1"].req.body.name))

\* C5 witness: an update of an existing miniature whose name is a control
\* character followed by a dash outside ASCII was answered 400, and an update
\* of the same kind naming it "!" is what the other half of the rule accepts.
C5_Witness ==
    /\ Done("t1", "update_miniature")
    /\ task["t1"].req.id \in DOMAIN db.miniatures
    /\ task["t1"].req.body.name = Some(<<"NUL", "EMDASH">>)
    /\ task["t1"].req.body.progress_status = None
    /\ task["t1"].resp.status = 400
    /\ task["t1"].resp.error_type = "validation_error"

\* The request r fails the field validation of its handler.
FailsValidation(r) ==
    CASE r.op = "create_project" ->
             name_rejected(r.body.name) \/ name_rejected(r.body.army)
      [] r.op = "update_project" ->
             \/ (r.body.name # None /\ name_rejected(r.body.name[1]))
             \/ (r.body.army # None /\ name_rejected(r.body.army[1]))
      [] r.op = "create_miniature" -> name_rejected(r.body.name)
      [] r.op = "update_miniature" ->
             r.body.name # None /\ name_rejected(r.body.name[1])
      [] r.op = "create_recipe" -> recipe_name_rejected(r.body.name)
      [] r.op = "update_recipe" ->
             r.body.name # None /\ recipe_name_rejected(r.body.name[1])
      [] OTHER -> FALSE

\* C6: a create or update request of a project, miniature or recipe that fails
\* field validation is answered with a validation error, whatever the store
\* holds, and its task has awaited no repository call.
C6_ValidationBeforeRepository ==
    \A t \in Procs :
        (task[t].pc = "done" /\ FailsValidation(task[t].req)) =>
            /\ task[t].resp.error_type = "validation_error"
            /\ task[t].calls.repository = 0

\* C7: create_miniature and link_recipe_to_miniature never answer with a
\* database error, whatever deletes run between their existence checks and
\* their insert, and no miniature or link row refers to a missing parent.
C7_MissingParentIs404 ==
    /\ \A t \in Procs :
          (task[t].pc = "done"
           /\ task[t].op \in {"create_miniature", "link_recipe_to_miniature"}) =>
              task[t].resp.error_type # "database_error"
    /\ \A m \in DOMAIN db.miniatures : db.miniatures[m].project_id \in DOMAIN db.projects
    /\ \A l \in DOMAIN db.miniature_recipes :
          l[1] \in DOMAIN db.miniatures /\ l[2] \in DOMAIN db.painting_recipes

\* C8: a link(m, r) executed while m and r exist succeeds, whether or not the
\* row is already there, and leaves one row (m, r); no pair ever has two rows.
\* unlink(m, r) answers 204 exactly when a row (m, r) existed, no row (m, r) is
\* left after it, and with no such row it answers 404 and changes nothing.
C8_LinkIdempotent ==
    [][/\ \A l \in DOMAIN db'.miniature_recipes : db'.miniature_recipes[l] = 1
       /\ \A t \in Procs :
            LET pair == <<task[t].req.miniature_id, task[t].req.recipe_id>>
            IN  /\ (/\ Ends(t, "link_recipe_to_miniature", "link")
                    /\ pair[1] \in DOMAIN db.miniatures
                    /\ pair[2] \in DOMAIN db.painting_recipes) =>
                       /\ task'[t].resp.status = 201
                       /\ pair \in DOMAIN db'.miniature_recipes
                       /\ db'.miniature_recipes[pair] = 1
                       /\ \A l \in DOMAIN db.miniature_recipes \cup DOMAIN db'.miniature_recipes :
                             l # pair => /\ l \in DOMAIN db.miniature_recipes
                                         /\ l \in DOMAIN db'.miniature_recipes
                /\ Ends(t, "unlink_recipe_from_miniature", "unlink") =>
                       /\ (task'[t].resp.status = 204) <=> (pair \in DOMAIN db.miniature_recipes)
                       /\ task'[t].resp.status \in {204, 404}
                       /\ pair \notin DOMAIN db'.miniature_recipes
                       /\ task'[t].resp.status = 404 => db' = db]_vars

\* C8 witness: both tasks linked miniature 2 to recipe 2, which were not linked
\* before; both were answered 201 and there is one row (2, 2).
C8_Witness ==
    /\ \A t \in Procs :
          /\ Done(t, "link_recipe_to_miniature")
          /\ task[t].req.miniature_id = 2 /\ task[t].req.recipe_id = 2
          /\ task[t].resp.status = 201
    /\ DOMAIN db.miniature_recipes = {<<1, 1>>, <<2, 1>>, <<1, 2>>, <<3, 2>>, <<2, 2>>}
    /\ db.miniature_recipes[<<2, 2>>] = 1

DeleteOps == {"delete_project", "delete_miniature", "delete_recipe"}

\* The table a delete handler deletes from.
TableOf(op) ==
    CASE op = "delete_project" -> "projects"
      [] op = "delete_miniature" -> "miniatures"
      [] op = "delete_recipe" -> "painting_recipes"

\* C9: a delete of a project, miniature or recipe answers 204 exactly when the
\* row existed as the statement ran, and the row is gone afterwards; on an
\* absent id it answers 404 and changes nothing; of two deletes of one id at
\* most one is answered 204.
C9_DeleteReturnsExisted ==
    /\ [][\A t \in Procs, op \in DeleteOps :
            Ends(t, op, "delete") =>
                LET id == task[t].req.id
                IN  /\ (task'[t].resp.status = 204) <=> (id \in DOMAIN db[TableOf(op)])
                    /\ task'[t].resp.status \in {204, 404}
                    /\ id \notin DOMAIN db'[TableOf(op)]
                    /\ task'[t].resp.status = 404 => db' = db]_vars
    /\ [](\A t \in Procs, u \in Procs, op \in DeleteOps :
            (t # u /\ Done(t, op) /\ Done(u, op) /\ task[t].req.id = task[u].req.id) =>
                ~(task[t].resp.status = 204 /\ task[u].resp.status = 204))

\* C9 witness: both tasks deleted recipe 1, which existed; one was answered 204
\* and the other 404.
C9_Witness ==
    \E t \in Procs, u \in Procs :
        /\ Done(t, "delete_recipe") /\ Done(u, "delete_recipe")
        /\ task[t].req.id = 1 /\ task[u].req.id = 1
        /\ task[t].resp.status = 204
        /\ task[u].resp.status = 404
        /\ db.seq.painting_recipes >= 1
        /\ 1 \notin DOMAIN db.painting_recipes

C11_RejectionDoesNoIO ==
    \A t \in Procs :
        (Done(t, "upload_photo") /\ task[t].resp.status = 400) =>
            /\ task[t].calls.repository = 0
            /\ task[t].calls.storage = 0

\* C12: every photo row has a file_path whose object is in storage; an upload
\* whose store fails creates no row, a row is inserted only with its object
\* stored, and an object is removed only when no row holds its key.
C12_RowsHaveObjects ==
    /\ [](\A p \in DOMAIN db.photos : db.photos[p].file_path \in DOMAIN storage)
    /\ [][/\ \A t \in Procs :
               Ends(t, "upload_photo", "store_photo") =>
                   db' = db /\ task'[t].resp.status = 500
          /\ \A p \in DOMAIN db'.photos \ DOMAIN db.photos :
               db'.photos[p].file_path \in DOMAIN storage
          /\ \A k \in DOMAIN storage \ DOMAIN storage' :
               \A p \in DOMAIN db.photos : db.photos[p].file_path # k]_vars

\* C12 witness: one task uploaded a photo, whose row and object are there, and
\* the upload of the other task failed in storage and left no row.
C12_Witness ==
    \E t \in Procs, u \in Procs :
        /\ Done(t, "upload_photo") /\ task[t].resp.status = 200
        /\ task[t].resp.body[1].id \in DOMAIN db.photos
        /\ task[t].resp.body[1].file_path \in DOMAIN storage
        /\ Done(u, "upload_photo") /\ task[u].resp.error_type = "storage_error"
        /\ task[u].calls.storage = 1
        /\ db.seq.photos = task[t].resp.body[1].id
        /\ Cardinality(DOMAIN storage) = Cardinality(DOMAIN db.photos)

\* C13: the step of delete_photo that follows the deletion of the row, whatever
\* the storage layer does in it, answers 204 and leaves the row deleted.
C13_StorageFailureNotFatal ==
    [][\A t \in Procs :
        Ends(t, "delete_photo", "delete_photo") =>
            /\ task'[t].resp.status = 204
            /\ task[t].req.photo_id \notin DOMAIN db'.photos]_vars

\* C14: no two photo rows share a file_path, and an upload stores its bytes
\* under a key that holds no object yet.
C14_KeysDoNotCollide ==
    /\ [](\A p \in DOMAIN db.photos, q \in DOMAIN db.photos :
            p # q => db.photos[p].file_path # db.photos[q].file_path)
    /\ [][\A t \in Procs :
            (At(t, "upload_photo", "store_photo") /\ task'[t].pc = "create") =>
                /\ task'[t].local.file_path \notin DOMAIN storage
                /\ task'[t].local.file_path \in DOMAIN storage'
                /\ \A k \in DOMAIN storage : storage'[k] = storage[k]]_vars

\* C14 witness: both tasks uploaded a file named a.png for miniature 1; there
\* are two rows with different keys, each key holding an object.
C14_Witness ==
    /\ \A t \in Procs :
          /\ Done(t, "upload_photo") /\ task[t].resp.status = 200
          /\ task[t].req.miniature_id = 1
          /\ task[t].req.fields[1].file_name = Some(<<"a", ".", "png">>)
          /\ task[t].resp.body[1].id \in DOMAIN db.photos
          /\ task[t].resp.body[1].file_path \in DOMAIN storage
    /\ task["t1"].resp.body[1].file_path # task["t2"].resp.body[1].file_path
    /\ task["t1"].resp.body[1].id # task["t2"].resp.body[1].id

\* The task t makes the direct call op in this step.
Calls(t, op) == task[t].pc = "idle" /\ task'[t].op = op

\* The key the backend of the call r derives from the requested key.
BackendKey(r) ==
    IF r.backend = "local" THEN sanitize_path(r.file_path) ELSE sanitize_key(r.file_path)

NoDotDot(k) == \A i \in 1..(Len(k) - 1) : ~(k[i] = "." /\ k[i + 1] = ".")

NoBackslash(k) == \A i \in 1..Len(k) : k[i] # "\\"

NoLeadingSlash(k) == k = <<>> \/ k[1] # "/"

\* C15: on either backend, a store that succeeds returns a key with no "..",
\* no backslash and no leading "/", and has written the bytes under that key
\* and nowhere else; a store of a key that is empty after sanitization fails
\* with InvalidPath, and a store that fails writes nothing.
C15_StoreSanitizes ==
    [][\A t \in Procs :
        Calls(t, "storage_store") =>
            LET r   == task'[t].req
                ret == task'[t].resp.body
            IN  /\ ret # None =>
                      /\ NoDotDot(ret[1]) /\ NoBackslash(ret[1]) /\ NoLeadingSlash(ret[1])
                      /\ ret[1] # <<>>
                      /\ task'[t].resp.error_type = ""
                      /\ ret[1] \in DOMAIN storage'
                      /\ storage'[ret[1]] = r.file_data
                      /\ DOMAIN storage' = DOMAIN storage \cup {ret[1]}
                      /\ \A k \in DOMAIN storage : k # ret[1] => storage'[k] = storage[k]
                /\ ret = None => storage' = storage /\ task'[t].resp.error_type # ""
                /\ (BackendKey(r) = None) <=> (task'[t].resp.error_type = "InvalidPath")]_vars

\* C15 witness: on the S3 backend the key "..\a" was stored as "a", and on no
\* other key.
C15_Witness ==
    /\ Done("t1", "storage_store")
    /\ task["t1"].req.backend = "s3"
    /\ task["t1"].req.file_path = <<".", ".", "\\", "a">>
    /\ task["t1"].resp.body = Some(<<"a">>)
    /\ <<"a">> \in DOMAIN storage
    /\ task["t2"].pc = "idle"

\* C16: no photo row holds a file_path with the sequence "../" or "..\".
C16_NoTraversalInRows ==
    \A p \in DOMAIN db.photos :
        LET k == db.photos[p].file_path
        IN  \A i \in 1..(Len(k) - 2) :
                ~(k[i] = "." /\ k[i + 1] = "." /\ k[i + 2] \in {"/", "\\"})

\* C17: on either backend, a delete of a key under which nothing is stored
\* fails with FileNotFound and changes nothing, and a delete that succeeds
\* has removed an object that was stored under the key.
C17_DeleteNotFound ==
    [][\A t \in Procs :
        (Calls(t, "storage_delete") /\ BackendKey(task'[t].req) # None) =>
            LET k == BackendKey(task'[t].req)[1]
            IN  /\ k \notin DOMAIN storage =>
                      task'[t].resp.error_type = "FileNotFound" /\ storage' = storage
                /\ task'[t].resp.error_type = "" =>
                      k \in DOMAIN storage /\ k \notin DOMAIN storage']_vars

UpdateOps == {"update_project", "update_miniature", "update_recipe"}

\* The table an update handler writes to.
UpdatedTable(op) ==
    CASE op = "update_project" -> "projects"
      [] op = "update_miniature" -> "miniatures"
      [] op = "update_recipe" -> "painting_recipes"

\* C18: every update that succeeds leaves the row's updated_at greater than the
\* updated_at the row held just before the write.
C18_UpdatedAtAdvances ==
    [][\A t \in Procs, op \in UpdateOps :
        (Ends(t, op, "update") /\ task'[t].resp.status = 200) =>
            db'[UpdatedTable(op)][task[t].req.id].updated_at
                > db[UpdatedTable(op)][task[t].req.id].updated_at]_vars

Timestamped == {"projects", "miniatures", "painting_recipes"}

\* C19: the record a create returns has created_at = updated_at, and every
\* project, miniature and recipe row has updated_at >= created_at.
C19_UpdatedNotBeforeCreated ==
    /\ [](\A tb \in Timestamped : \A id \in DOMAIN db[tb] :
            db[tb][id].updated_at >= db[tb][id].created_at)
    /\ [](\A t \in Procs :
            (/\ task[t].pc = "done"
             /\ task[t].op \in {"create_project", "create_miniature", "create_recipe"}
             /\ task[t].resp.status = 200) =>
                task[t].resp.body[1].created_at = task[t].resp.body[1].updated_at)

\* C20: a miniature is created with progress_status unpainted, and an update
\* that provides a progress_status s and finds the miniature answers 200 and
\* leaves the row at s, whatever status the row held.
C20_StatusUnconstrained ==
    [][\A t \in Procs :
        /\ (Ends(t, "create_miniature", "create") /\ task'[t].resp.status = 200) =>
              LET m == task'[t].resp.body[1]
              IN  /\ m.progress_status = "unpainted"
                  /\ m.id \notin DOMAIN db.miniatures
                  /\ db'.miniatures[m.id].progress_status = "unpainted"
        /\ (/\ Ends(t, "update_miniature", "update")
            /\ task[t].req.body.progress_status # None
            /\ task[t].req.id \in DOMAIN db.miniatures) =>
              /\ task'[t].resp.status = 200
              /\ db'.miniatures[task[t].req.id].progress_status
                     = task[t].req.body.progress_status[1]
              /\ task'[t].resp.body[1].progress_status
                     = task[t].req.body.progress_status[1]]_vars

\* C20 witness: one update set miniature 1 to completed and was answered with
\* that record, and the other then set it back to primed.
C20_Witness ==
    \E t \in Procs, u \in Procs :
        /\ Done(u, "update_miniature") /\ Done(t, "update_miniature")
        /\ task[u].req.id = 1 /\ task[t].req.id = 1
        /\ task[u].req.body.progress_status = Some("completed")
        /\ task[u].resp.status = 200
        /\ task[u].resp.body[1].progress_status = "completed"
        /\ task[t].req.body.progress_status = Some("primed")
        /\ task[t].resp.status = 200
        /\ 1 \in DOMAIN db.miniatures
        /\ db.miniatures[1].progress_status = "primed"

\* C21: every response to a database failure is a 500 carrying the fixed
\* phrase of AppError::into_response, so the text of the database error is in
\* no response.
C21_DatabaseErrorsGeneric ==
    \A t \in Procs :
        (task[t].pc = "done" /\ task[t].resp.error_type = "database_error") =>
            /\ task[t].resp.status = 500
            /\ task[t].resp.message = <<"An internal database error occurred">>
            /\ \A i \in DOMAIN task[t].resp.message :
                   task[t].resp.message[i] # sqlx_Error_to_string


C23_RecipeNameRule ==
    /\ Done("t1", "create_recipe") =>
          LET name == task["t1"].req.body.name
          IN  /\ (task["t1"].resp.error_type = "validation_error")
                     <=> (\A i \in 1..Len(name) : is_whitespace(name[i]))
              /\ (\E i \in 1..Len(name) : ~is_whitespace(name[i])) =>
                     /\ task["t1"].resp.status = 200
                     /\ task["t1"].resp.body[1].name = name
    /\ Done("t1", "update_recipe") =>
          LET name == task["t1"].req.body.name
          IN  /\ (task["t1"].resp.error_type = "validation_error")
                     <=> (/\ name # None
                          /\ \A i \in 1..Len(name[1]) : is_whitespace(name[1][i]))
              /\ (/\ name # None
                  /\ \E i \in 1..Len(name[1]) : ~is_whitespace(name[1][i])
                  /\ task["t1"].req.id \in DOMAIN db.painting_recipes) =>
                     /\ task["t1"].resp.status = 200
                     /\ task["t1"].resp.body[1].name = name[1]

\* C23 witness: a recipe named by a control character and a dash outside
\* ASCII, a name the project handlers reject, was created.
C23_Witness ==
    /\ Done("t1", "create_recipe")
    /\ task["t1"].req.body.name = <<"NUL", "EMDASH">>
    /\ name_rejected(task["t1"].req.body.name)
    /\ task["t1"].resp.status = 200
    /\ \E id \in DOMAIN db.painting_recipes : db.painting_recipes[id].name = <<"NUL", "EMDASH">>


\* The records in the sequence photos.
Listed(photos) == {photos[i] : i \in DOMAIN photos}

\* C24: in every state PhotoRepository::find_by_miniature_id(m) returns each
\* photo row of m once and no other row, by non-decreasing uploaded_at; the
\* record an upload created is returned for its miniature from then on, and
\* the record a delete removed is returned for none.
C24_PhotosOfMiniature ==
    /\ [](\A m \in 0..(db.seq.miniatures + 1) :
            LET photos == PhotoRepository_find_by_miniature_id(db, m)
            IN  /\ Listed(photos) = {db.photos[p] : p \in PhotosOf(db, {m})}
                /\ Len(photos) = Cardinality(PhotosOf(db, {m}))
                /\ \A i \in DOMAIN photos : photos[i].miniature_id = m
                /\ \A i \in DOMAIN photos, j \in DOMAIN photos :
                       i < j => photos[i].uploaded_at <= photos[j].uploaded_at)
    /\ [][\A t \in Procs :
            /\ (Ends(t, "upload_photo", "create") /\ task'[t].resp.status = 200) =>
                  \A m \in 0..(db.seq.miniatures + 1) :
                      (task'[t].resp.body[1]
                           \in Listed(PhotoRepository_find_by_miniature_id(db', m)))
                          <=> m = task[t].req.miniature_id
            /\ (At(t, "delete_photo", "delete") /\ task'[t].pc = "delete_photo") =>
                  \A m \in 0..(db.seq.miniatures + 1) :
                      task'[t].local
                          \notin Listed(PhotoRepository_find_by_miniature_id(db', m))]_vars

\* C24 witness: miniature 1 has a photo uploaded later than a photo of a
\* greater id, which the query returns after it, and another miniature has a
\* photo.
C24_Witness ==
    /\ \E p \in DOMAIN db.photos, q \in DOMAIN db.photos :
          /\ db.photos[p].miniature_id = 1 /\ db.photos[q].miniature_id = 1
          /\ p < q /\ db.photos[p].uploaded_at > db.photos[q].uploaded_at
          /\ PhotoRepository_find_by_miniature_id(db, 1)[1] # db.photos[p]
    /\ \E p \in DOMAIN db.photos : db.photos[p].miniature_id # 1


\* The task t was handed the deleted record by PhotoRepository::delete.
HoldsDeleted(t) ==
    /\ task[t].op = "delete_photo"
    /\ \/ task[t].pc = "delete_photo"
       \/ task[t].pc = "done" /\ task[t].resp.status # 404

\* C25: of two delete_photo calls on the same photo id at most one is handed
\* the record; the record is the row its DELETE removed, file_path included;
\* a call answered 404 has made no storage call; and only a call holding the
\* record changes storage, removing at most the object at that file_path.
C25_DeleteHandsRecordOnce ==
    /\ [](\A t \in Procs, u \in Procs :
            (/\ t # u
             /\ task[t].op = "delete_photo" /\ task[u].op = "delete_photo"
             /\ task[t].req.photo_id = task[u].req.photo_id) =>
                /\ ~(HoldsDeleted(t) /\ HoldsDeleted(u))
                /\ (Done(t, "delete_photo") /\ Done(u, "delete_photo")
                    /\ HoldsDeleted(t)) =>
                       /\ task[u].resp.status = 404
                       /\ task[u].calls.storage = 0)
    /\ [](\A t \in Procs :
            (Done(t, "delete_photo") /\ task[t].resp.status = 404) =>
                task[t].calls.storage = 0)
    /\ [][\A t \in Procs :
            /\ (At(t, "delete_photo", "delete") /\ task'[t].pc = "delete_photo") =>
                  /\ task[t].req.photo_id \in DOMAIN db.photos
                  /\ task[t].req.photo_id \notin DOMAIN db'.photos
                  /\ task'[t].local = db.photos[task[t].req.photo_id]
            /\ (At(t, "delete_photo", "delete") /\ task'[t].pc = "done") =>
                  /\ task[t].req.photo_id \notin DOMAIN db.photos
                  /\ task'[t].resp.status = 404
                  /\ storage' = storage
            /\ (task[t].op = "delete_photo" /\ task'[t].op = "delete_photo"
                /\ task'[t].pc # task[t].pc /\ storage' # storage) =>
                  /\ HoldsDeleted(t)
                  /\ storage' = Remove(storage,
                                       {sanitize_path(task[t].local.file_path)[1]})]_vars

\* C25 witness: both tasks found photo 1, the DELETE of one removed the row and
\* its call removed the stored object and answered 204, and the DELETE of the
\* other affected no row and its call answered 404 without a storage call.
C25_Witness ==
    \E t \in Procs, u \in Procs :
        /\ Done(t, "delete_photo") /\ Done(u, "delete_photo")
        /\ task[t].req.photo_id = 1 /\ task[u].req.photo_id = 1
        /\ task[t].resp.status = 204 /\ task[t].calls.storage = 1
        /\ task[u].resp.status = 404
        /\ task[u].calls.repository = 2 /\ task[u].calls.storage = 0
        /\ 1 \notin DOMAIN db.photos


\* The tables of the store.
Tables == {"projects", "miniatures", "painting_recipes", "photos", "miniature_recipes"}

\* C26: the write of an update adds a row to no table; when the row it read
\* is gone by the time of the write, the call answers 404 not_found and the
\* store is left as it was, the row absent.
C26_UpdateNeverCreates ==
    [][\A t \in Procs, op \in UpdateOps :
          Ends(t, op, "update") =>
              /\ \A tb \in Tables : DOMAIN db'[tb] = DOMAIN db[tb]
              /\ task[t].req.id \notin DOMAIN db[UpdatedTable(op)] =>
                    /\ task'[t].resp.status = 404
                    /\ task'[t].resp.error_type = "not_found"
                    /\ db' = db]_vars

\* C26 witness: update_miniature read its row, delete_project then removed the
\* row by cascade, and the update was answered 404 with the row absent.
C26_Witness ==
    \E t \in Procs, u \in Procs :
        /\ Done(t, "update_miniature")
        /\ task[t].calls.repository = 2
        /\ task[t].resp.status = 404
        /\ task[t].req.id \notin DOMAIN db.miniatures
        /\ Done(u, "delete_project")
        /\ task[u].resp.status = 204


\* No photo row refers to the stored object k.
Orphaned(d, k) == \A p \in DOMAIN d.photos : d.photos[p].file_path # k

\* C27: delete_miniature and delete_project make no storage call and leave
\* storage as it is, so the object of every photo row they cascade to is still
\* stored, with no row referring to it; a stored object disappears only in the
\* storage step of a delete_photo call, and an object no row refers to and no
\* delete_photo call holds the record of stays as it is, and without a row
\* unless it is the object an upload has stored and not yet recorded.
C27_CascadeLeavesObjects ==
    [][/\ \A t \in Procs, op \in {"delete_miniature", "delete_project"} :
             Ends(t, op, "delete") =>
                 /\ storage' = storage
                 /\ task'[t].calls.storage = 0
                 /\ \A p \in DOMAIN db.photos \ DOMAIN db'.photos :
                        /\ db.photos[p].file_path \in DOMAIN storage'
                        /\ Orphaned(db', db.photos[p].file_path)
       /\ (\E k \in DOMAIN storage : k \notin DOMAIN storage') =>
             \E t \in Procs : Ends(t, "delete_photo", "delete_photo")
       /\ \A k \in DOMAIN storage :
             (/\ Orphaned(db, k)
              /\ \A t \in Procs : At(t, "delete_photo", "delete_photo") =>
                                      task[t].local.file_path # k) =>
                 /\ k \in DOMAIN storage'
                 /\ storage'[k] = storage[k]
                 /\ (\A t \in Procs : At(t, "upload_photo", "create") =>
                                          task[t].local.file_path # k) =>
                        Orphaned(db', k)]_vars

\* C27 witness: delete_miniature removed a miniature and its photo rows
\* without a storage call while the other task did nothing, and a stored
\* object is left that no row refers to.
C27_Witness ==
    /\ Done("t1", "delete_miniature")
    /\ task["t1"].resp.status = 204
    /\ task["t1"].calls.storage = 0
    /\ task["t2"].pc = "idle"
    /\ \E k \in DOMAIN storage : Orphaned(db, k)


\* The optional text column an update handler writes.
NullableField(op) == IF op = "update_project" THEN "description" ELSE "notes"

\* C28 as stated: no step makes a description or notes that holds a value
\* absent, and an update that omits the field (or sends null) leaves the row
\* with the value it held just before the write.
C28_NeverAbsentAgain ==
    [][\A t \in Procs, op \in UpdateOps :
          (Ends(t, op, "update") /\ task'[t].resp.status = 200) =>
              LET id  == task[t].req.id
                  f   == NullableField(op)
                  old == db[UpdatedTable(op)][id][f]
                  new == db'[UpdatedTable(op)][id][f]
              IN  /\ old # None => new # None
                  /\ task[t].req.body[f] = None => new = old]_vars

\* C28 amended: the merge of an update takes the provided string, the empty
\* one included, and otherwise the value it read, so it is absent only when
\* the request gave none and the row read held none; the write stores the
\* merged value.
C28_NeverAbsentAfterRead ==
    [][\A t \in Procs, op \in UpdateOps :
          LET id == task[t].req.id
              f  == NullableField(op)
              b  == task[t].req.body
          IN  /\ (At(t, op, "find_by_id") /\ task'[t].pc = "update") =>
                    LET cur == db[UpdatedTable(op)][id][f]
                    IN  /\ task'[t].local[f] = (IF b[f] # None THEN b[f] ELSE cur)
                        /\ cur # None => task'[t].local[f] # None
              /\ (Ends(t, op, "update") /\ task'[t].resp.status = 200) =>
                    /\ db'[UpdatedTable(op)][id][f] = task[t].local[f]
                    /\ task'[t].resp.body[1][f] = task[t].local[f]]_vars

\* C28 witness: an update of miniature 2 that gave no notes was answered 200
\* and the row still holds the notes it held when the update read it.
C28_Witness ==
    \E t \in Procs :
        /\ Done(t, "update_miniature")
        /\ task[t].req.id = 2
        /\ task[t].req.body.notes = None
        /\ task[t].resp.status = 200
        /\ task[t].resp.body[1].notes = Some(<<"n">>)
        /\ 2 \in DOMAIN db.miniatures
        /\ db.miniatures[2].notes = Some(<<"n">>)


\* The columns of a table that no update statement sets.
Immutable(tb) ==
    CASE tb = "projects"         -> {"id", "created_at"}
      [] tb = "miniatures"       -> {"id", "project_id", "miniature_type", "created_at"}
      [] tb = "painting_recipes" -> {"id", "miniature_type", "created_at"}

\* C29: the steps of an update call change nothing but the row of the given
\* id in the table of the call, and in that row leave id, created_at, a
\* miniature's project_id and miniature_type and a recipe's miniature_type as
\* they were.
C29_UpdateFrame ==
    [][\A t \in Procs, op \in UpdateOps :
          /\ (At(t, op, "find_by_id") /\ task'[t].pc # "find_by_id") => db' = db
          /\ Ends(t, op, "update") =>
                LET tb == UpdatedTable(op)
                    id == task[t].req.id
                IN  /\ \A other \in Tables \ {tb} : db'[other] = db[other]
                    /\ db'.seq = db.seq
                    /\ DOMAIN db'[tb] = DOMAIN db[tb]
                    /\ \A r \in DOMAIN db[tb] \ {id} : db'[tb][r] = db[tb][r]
                    /\ id \in DOMAIN db[tb] =>
                          \A c \in Immutable(tb) : db'[tb][id][c] = db[tb][id][c]
          /\ (task[t].op = op /\ task'[t].op = op /\ task'[t] # task[t]) =>
                storage' = storage /\ uuid_seq' = uuid_seq]_vars

\* C29 witness: with two projects stored, an update renamed project 1 at a
\* later clock reading; its created_at is the one of its creation and project
\* 2 is as it was created.
C29_Witness ==
    \E t \in Procs :
        /\ Done(t, "update_project")
        /\ task[t].req.id = 1
        /\ task[t].req.body.name = Some(<<"!">>)
        /\ task[t].resp.status = 200
        /\ DOMAIN db.projects = {1, 2}
        /\ db.projects[1].name = <<"!">>
        /\ db.projects[1].created_at = 0
        /\ db.projects[1].updated_at = 1
        /\ db.projects[2].name = Name_a
        /\ db.projects[2].updated_at = 0


\* The call of the step is one on the local backend.
LocalCall(t, op) == Calls(t, op) /\ task'[t].req.backend = "local"

====
